---- MODULE Spec2Model ----
(***************************************************************************)
(* DOT-EVM: local store (better-sqlite3), version control engine, staging  *)
(* area, sync reconciler (push / replay / pull) and the remote server's    *)
(* sync endpoints, as a state machine over one user and one project.       *)
(***************************************************************************)
EXTENDS Integers, Sequences, FiniteSets, TLC

----------------------------------------------------------------------------
\* Bounds of the model.

\* commits are made while the local table has seen fewer rows than this
MaxVersions == 2
\* rollback_history rows ever inserted
MaxRollbacks == 1
\* seconds the wall clock may advance (CURRENT_TIMESTAMP has 1s resolution)
MaxClock == 1
\* pending_operations rows ever inserted
MaxOps == 2
\* local-store / file-system statements that fail in one behaviour
MaxFaults == 1
\* pushes made by another machine of the same user
MaxForeign == 1

\* .env files of the project directory
FileNames == {"fa", "fb"}
\* directory listing order of scanEnvFiles
FileOrder == <<"fa", "fb">>
\* plaintext contents of a file
Plain == {"p1", "p2"}

\* SQL NULL for integer columns (AUTOINCREMENT ids start at 1)
NULL == 0
\* the file is not on disk
Absent == "absent"
\* the session's user and salt
UserEmail == "alice"
UserSalt == "s_alice"

\* the salt createUser drew on another device of the same user
ForeignSalt == "s_alice_2"
----------------------------------------------------------------------------
\* Generic helpers.

Range(s) == {s[i] : i \in 1..Len(s)}

\* all orderings of the finite set S (as sequences without repetition)
Perms(S) ==
  {s \in [1..Cardinality(S) -> S] : \A i, j \in 1..Cardinality(S) : i # j => s[i] # s[j]}

\* orderings a "SELECT ... ORDER BY createdAt DESC" may return: rows with
\* equal createdAt (CURRENT_TIMESTAMP counts seconds) come in the order of
\* the scan, which for env_versions can follow the index of
\* UNIQUE(env_file_id, version_token), i.e. the order of the random tokens
OrderByCreatedAtDesc(S) ==
  {s \in Perms(S) : \A i, j \in 1..Cardinality(S) : i < j => s[i].createdAt >= s[j].createdAt}

\* "SELECT ... ORDER BY createdAt ASC" over a table scanned in rowid order:
\* the sorter is stable, equal createdAt rows stay in rowid order
OrderByCreatedAtAsc(S) ==
  CHOOSE s \in Perms(S) : \A i, j \in 1..Cardinality(S) :
     i < j => \/ s[i].createdAt < s[j].createdAt
              \/ s[i].createdAt = s[j].createdAt /\ s[i].id < s[j].id

----------------------------------------------------------------------------
\* Content cipher.

\* a cipher whose key leaves out the salt it is given
encryptContentOwnSalt(content, userEmail, userSalt, iv) ==
  [pt |-> content, iv |-> iv, email |-> userEmail, salt |-> UserSalt]

\* aes-256-gcm under the key derived from (email, salt), AAD = email, with the
\* given iv: the ciphertext/iv/tag triple is determined by these four values
encryptContent(content, userEmail, userSalt, iv) ==
  [pt |-> content, iv |-> iv, email |-> userEmail, salt |-> userSalt]

DecryptError == "Decryption failed"

\* a cipher whose tag covers neither the email nor the key's password
decryptContentAnyEmail(enc, userEmail, userSalt) ==
  IF enc.salt = userSalt THEN enc.pt ELSE DecryptError

\* the tag verifies only under the same key (email, salt) and the same AAD
decryptContent(enc, userEmail, userSalt) ==
  IF enc.email = userEmail /\ enc.salt = userSalt THEN enc.pt ELSE DecryptError

----------------------------------------------------------------------------
VARIABLES
  db,        \* the local SQLite store: tables and AUTOINCREMENT counters
  disk,      \* the project directory: file name -> plaintext or Absent
  staging,   \* staging.json of the project
  clock,     \* wall clock in seconds
  rand,      \* randomness consumed so far: next version token, next iv
  remote,    \* the server's database
  run,       \* the CLI command in progress (position between awaits)
  net,       \* "up" or "down": whether the server can be reached; "steady":
             \* it is reached, the session is valid and every answer arrives
  faults,    \* local-store and file-system failures so far
  hist,      \* history of what the commands did (observation only)
  elsewhere, \* the staging files of the user's other project directories
  auth,      \* session.json, the server's refresh tokens, the last call's outcome
  accounts,  \* the users tables of the devices' stores and of the server
  cipher,    \* one use of the content cipher: its inputs and what it returned
  srv        \* the server between the statements of its handlers: its tables
             \* with their serial ids, and the requests it is handling

vars == <<db, disk, staging, clock, rand, remote, run, net, faults, hist, elsewhere,
          auth, accounts, cipher, srv>>

\* the project directory the commands run in, and what belongs to it
thisDir == <<db, disk, staging, clock, rand, remote, run, net, faults, hist>>

NoStaging == [staged |-> FALSE, isRevert |-> FALSE, files |-> <<>>]

\* the project of this directory and the users of this machine: the one
\* logged in, who owns the project, and another one
ProjectName == "demo"

Owner == "owner"

UserIds == {Owner, "other"}

\* the store after `evm init`: the project row and nothing else
EmptyDb ==
  [projects |-> {[name |-> ProjectName, user_id |-> Owner]},
   env_files |-> {}, env_versions |-> {}, rollback_history |-> {},
   pending_operations |-> {},
   seqFile |-> 0, seqVersion |-> 0, seqRollback |-> 0, seqOp |-> 0]

\* the server's tables. Its serial ids never leave the server: a file row is
\* identified by its name (unique in the project), the rows that reference
\* a file carry that name as env_file_id, and a version row is numbered
\* among the rows of its file and token
EmptyRemote ==
  [projects |-> {}, env_files |-> {}, env_versions |-> {}, rollback_history |-> {}]

\* no command in progress; otherwise: the command, the loop it is in, what is
\* left of each loop, and what the command has seen of the network so far
Idle ==
  [kind |-> "idle", phase |-> "none", ops |-> <<>>, files |-> <<>>, cur |-> "",
   vers |-> <<>>, rbs |-> <<>>, opv |-> <<>>, calls |-> 0, reached |-> 0,
   again |-> {}, failed |-> FALSE]

\* what the command that has just finished did
NoLast ==
  [op |-> "none", ok |-> FALSE, file |-> NULL, target |-> NULL, prevHead |-> NULL,
   newId |-> NULL, rbBefore |-> {}, versBefore |-> {}, count |-> 0, made |-> 0,
   calls |-> 0, reached |-> 0, opsBefore |-> {}, failed |-> FALSE, left |-> {},
   pulled |-> {}, skipped |-> {}, cloudBefore |-> {}, dbBefore |-> {},
   diskBefore |-> [f \in FileNames |-> Absent],
   storeBefore |-> EmptyDb, entity |-> "", hash |-> NULL,
   committed |-> {}, notCommitted |-> {}]

InitHist ==
  [last |-> NoLast,
   \* commits of each file since its creation (-1: something else wrote to it)
   pure |-> [f \in FileNames |-> 0],
   \* <<file name, version token>> pushes the remote has acknowledged
   acked |-> {},
   \* pending operations queued when the current sync run started
   queued |-> {},
   \* pending operations the current sync run has attempted, in order
   attempted |-> <<>>,
   \* pending operations whose remote calls all succeeded in the current run
   succeeded |-> {},
   \* pending_operations ids when the current command started
   opsBefore |-> {},
   \* the file of the run's latest POST /env-files, if that was acknowledged
   upserted |-> ""]

Forget(h) == [h EXCEPT !.last = NoLast]

\* the history of a run is dropped when the run is over
EndRun(h) ==
  [h EXCEPT !.queued = {}, !.attempted = <<>>, !.succeeded = {}, !.opsBefore = {},
            !.upserted = ""]

----------------------------------------------------------------------------
\* Local store: queries.

\* statements.getEnvFileByProjectAndName
getEnvFileByProjectAndName(d, fileName) ==
  {f \in d.env_files : f.project_id = ProjectName /\ f.name = fileName}

\* statements.getEnvFileById
getEnvFileById(d, envFileId) == {f \in d.env_files : f.id = envFileId}

\* rows of statements.getVersionsByEnvFile (unordered)
VersionsOfFile(d, envFileId) == {v \in d.env_versions : v.env_file_id = envFileId}

\* statements.getVersionsByEnvFile ... ORDER BY createdAt DESC, first row:
\* any row of the file with the greatest createdAt
getVersionsByEnvFileFirst(d, envFileId) ==
  {v \in VersionsOfFile(d, envFileId) :
     \A w \in VersionsOfFile(d, envFileId) : w.createdAt <= v.createdAt}

\* a lookup that falls back to the newest version when no token matches
getVersionByTokenOrNewest(d, versionToken) ==
  IF \E v \in d.env_versions : v.version_token = versionToken
    THEN {v \in d.env_versions : v.version_token = versionToken}
    ELSE {v \in d.env_versions : \A w \in d.env_versions : w.id <= v.id}

\* statements.getVersionByToken: the token alone selects the row
getVersionByToken(d, versionToken) ==
  {v \in d.env_versions : v.version_token = versionToken}

\* statements.getUnsyncedVersionsByEnvFile (unordered)
UnsyncedVersionsOfFile(d, envFileId) ==
  {v \in d.env_versions : v.env_file_id = envFileId /\ ~v.syncedToServer}

\* a queue read newest first
getPendingOperationsNewestFirst(d) ==
  LET s == OrderByCreatedAtAsc({o \in d.pending_operations : ~o.processed})
  IN [i \in 1..Len(s) |-> s[Len(s) + 1 - i]]

\* dbOps.getPendingOperations: processed = 0, ORDER BY createdAt ASC
getPendingOperations(d) ==
  OrderByCreatedAtAsc({o \in d.pending_operations : ~o.processed})

----------------------------------------------------------------------------
\* Local store: statements that write.

\* an update of the file row that also rewrites the versions of the file
updateEnvFileAndVersions(d, envFileId, content, now) ==
  [d EXCEPT !.env_files =
     {IF f.id = envFileId THEN [f EXCEPT !.content = content, !.updatedAt = now] ELSE f
        : f \in d.env_files},
            !.env_versions =
     {IF v.env_file_id = envFileId THEN [v EXCEPT !.content = content] ELSE v
        : v \in d.env_versions}]

\* statements.updateEnvFile
updateEnvFile(d, envFileId, content, now) ==
  [d EXCEPT !.env_files =
     {IF f.id = envFileId THEN [f EXCEPT !.content = content, !.updatedAt = now] ELSE f
        : f \in d.env_files}]

\* statements.updateEnvFileVersion
updateEnvFileVersion(d, envFileId, versionId, now) ==
  [d EXCEPT !.env_files =
     {IF f.id = envFileId
        THEN [f EXCEPT !.current_version_id = versionId, !.updatedAt = now] ELSE f
        : f \in d.env_files}]

\* statements.insertEnvFile
insertEnvFile(d, fileName, content, now) ==
  [d EXCEPT !.seqFile = d.seqFile + 1,
            !.env_files = d.env_files \cup
              {[id |-> d.seqFile + 1, project_id |-> ProjectName, name |-> fileName,
                content |-> content, current_version_id |-> NULL,
                createdAt |-> now, updatedAt |-> now]}]

\* statements.insertEnvVersion (syncedToServer DEFAULT 0, createdAt DEFAULT now)
insertEnvVersion(d, envFileId, versionToken, content, parentVersionId, now) ==
  [d EXCEPT !.seqVersion = d.seqVersion + 1,
            !.env_versions = d.env_versions \cup
              {[id |-> d.seqVersion + 1, env_file_id |-> envFileId,
                version_token |-> versionToken, content |-> content,
                parent_version_id |-> parentVersionId, syncedToServer |-> FALSE,
                createdAt |-> now]}]

\* statements.markVersionAsSynced: WHERE version_token = ?
markVersionAsSynced(d, versionToken) ==
  [d EXCEPT !.env_versions =
     {IF v.version_token = versionToken THEN [v EXCEPT !.syncedToServer = TRUE] ELSE v
        : v \in d.env_versions}]

\* dbOps.createOrUpdateEnvFile; fails = the statement throws
createOrUpdateEnvFile(d, fileName, content, now, fails) ==
  LET existingFile == getEnvFileByProjectAndName(d, fileName) IN
  IF fails THEN [success |-> FALSE, db |-> d, envFileId |-> NULL]
  ELSE IF existingFile # {}
    THEN LET id == (CHOOSE f \in existingFile : TRUE).id IN
         [success |-> TRUE, db |-> updateEnvFile(d, id, content, now), envFileId |-> id]
    ELSE [success |-> TRUE, db |-> insertEnvFile(d, fileName, content, now),
          envFileId |-> d.seqFile + 1]

\* dbOps.createEnvVersion; fails = "insert" (insertEnvVersion throws),
\* "head" (updateEnvFileVersion throws) or "no"
createEnvVersion(d, envFileId, versionToken, content, parentVersionId, now, fails) ==
  IF fails = "insert" THEN [success |-> FALSE, db |-> d, versionId |-> NULL]
  ELSE LET d1 == insertEnvVersion(d, envFileId, versionToken, content, parentVersionId, now) IN
       IF fails = "head" THEN [success |-> FALSE, db |-> d1, versionId |-> NULL]
       ELSE [success |-> TRUE,
             db |-> updateEnvFileVersion(d1, envFileId, d.seqVersion + 1, now),
             versionId |-> d.seqVersion + 1]

----------------------------------------------------------------------------
\* Version control engine: commit.

\* body of the for loop of pushStagedFiles for one staged file
commitOne(d, r, file, out, now) ==
  LET
      \* pushStagedFiles calls createEnvVersion without its last argument, so the
      \* parameter takes its default
      DefaultParentVersionId(d_, envFileId) == NULL
  IN
      IF out = "encrypt" THEN [db |-> d, rand |-> r, count |-> 0, made |-> 0]
      ELSE
        LET encrypted == encryptContent(file.content, UserEmail, UserSalt, r.iv)
            versionToken == r.token
            envFileResult == createOrUpdateEnvFile(d, file.name, encrypted, now, out = "file")
        IN IF ~envFileResult.success THEN [db |-> d, rand |-> r, count |-> 0, made |-> 0]
           ELSE
             LET versionResult ==
                   createEnvVersion(envFileResult.db, envFileResult.envFileId, versionToken,
                                    encrypted,
                                    DefaultParentVersionId(envFileResult.db, envFileResult.envFileId),
                                    now, IF out \in {"insert", "head"} THEN out ELSE "no")
             IN [db |-> versionResult.db,
                 rand |-> [r EXCEPT !.iv = r.iv + 1,
                                    !.token = IF out = "insert" THEN r.token ELSE r.token + 1],
                 count |-> IF versionResult.success THEN 1 ELSE 0,
                 made |-> IF out = "insert" THEN 0 ELSE 1]

\* the for loop of pushStagedFiles over stagedData.files
RECURSIVE commitLoop(_, _, _, _, _)
commitLoop(d, r, files, outs, now) ==
  IF files = <<>> THEN [db |-> d, rand |-> r, count |-> 0, made |-> 0]
  ELSE LET one == commitOne(d, r, Head(files), Head(outs), now)
           rest == commitLoop(one.db, one.rand, Tail(files), Tail(outs), now)
       IN [db |-> rest.db, rand |-> rest.rand,
           count |-> one.count + rest.count, made |-> one.made + rest.made]

----------------------------------------------------------------------------
\* Version control engine: rollback.

\* `currentVersion?.version_token || "unknown"` when the file has no version
UnknownToken == 0

\* dbOps.rollbackToVersion: targetVersion is the row the token selects,
\* cur the row the query for the current version returned (NULL id: none)
rollbackToVersion(d, envFileId, targetVersion, cur, newVersionToken, now, stop) ==
  LET
      \* statements.insertRollbackHistory
      insertRollbackHistory(d_, envFileId_, fromToken, toToken, now_) ==
        [d_ EXCEPT !.seqRollback = d_.seqRollback + 1,
                  !.rollback_history = d_.rollback_history \cup
                    {[id |-> d_.seqRollback + 1, env_file_id |-> envFileId_,
                      from_version_token |-> fromToken, to_version_token |-> toToken,
                      syncedToServer |-> FALSE, createdAt |-> now_]}]
  IN
      LET fromToken == IF cur = NULL THEN UnknownToken
                       ELSE (CHOOSE v \in d.env_versions : v.id = cur).version_token
          d1 == insertRollbackHistory(d, envFileId, fromToken, targetVersion.version_token, now)
          d2 == insertEnvVersion(d1, envFileId, newVersionToken, targetVersion.content, cur, now)
          d3 == updateEnvFile(d2, envFileId, targetVersion.content, now)
          d4 == updateEnvFileVersion(d3, envFileId, d1.seqVersion + 1, now)
      IN [success |-> stop = 4,
          db |-> CASE stop = 0 -> d [] stop = 1 -> d1 [] stop = 2 -> d2
                   [] stop = 3 -> d3 [] OTHER -> d4,
          newVersionId |-> IF stop >= 2 THEN d1.seqVersion + 1 ELSE NULL]

----------------------------------------------------------------------------
\* Authentication (commands/modern-auth.js, server.js).

\* consecutive fresh access tokens that have expired (JWT_EXPIRES_IN) by the
\* time the retried request reaches the server
MaxStale == 1

\* nothing called yet
NoCall == [via |-> "none", ok |-> FALSE, expired |-> FALSE, attempts |-> 0,
           refreshes |-> 0, refreshed |-> 0]

\* a property the object does not have, as JavaScript reads it
Undefined == -1

\* generateTokens (server.js): jwt.sign of {userId, email} with iat, the
\* second of issuance (counted from 1), and an expiry derived from it. The
\* signature is a function of these, so the refresh token of a user is
\* known by its iat; the access token is known by whether it still verifies
generateTokens(now) == [token |-> "valid", refreshToken |-> now + 1]

\* session.json after the registration at second 0 (sessionManager
\* .setCurrentUser with the local id of the user); the server's refreshTokens
\* set holds the refresh token it issued. Observation: via, the command
\* that wrote the session; localId, the id of the local users row of the
\* session's email at that time; retired, the refresh tokens that were
\* redeemed or whose session logged out
LoggedIn ==
  [token |-> "valid", refreshToken |-> generateTokens(0).refreshToken,
   refreshTokens |-> {generateTokens(0).refreshToken}, last |-> NoCall,
   email |-> UserEmail, userId |-> 1, localId |-> 1, via |-> "register", retired |-> {}]

\* authenticateToken (server.js): verifyToken fails on an expired token
authenticateToken(token) ==
  IF token = "none" THEN [status |-> 401, error |-> "Access token required"]
  ELSE IF token = "expired" THEN [status |-> 401, error |-> "Token expired"]
  ELSE [status |-> 200, error |-> ""]

\* ModernAuth.refreshToken; stale > 0: the token it stores has expired by
\* the time it is used
refreshToken(a, stale) ==
  LET
      \* POST /auth/refresh: the token must be in the server's set; it is
      \* taken out and the new one put in
      PostAuthRefresh(refreshToken, refreshTokens) ==
        IF refreshToken = NULL
          THEN [status |-> 401, error |-> "Refresh token required",
                refreshTokens |-> refreshTokens, refreshToken |-> NULL]
        ELSE IF refreshToken \notin refreshTokens
          THEN [status |-> 403, error |-> "Invalid refresh token",
                refreshTokens |-> refreshTokens, refreshToken |-> NULL]
        ELSE [status |-> 200, error |-> "",
              refreshTokens |-> (refreshTokens \ {refreshToken})
                                  \cup {generateTokens(clock).refreshToken},
              refreshToken |-> generateTokens(clock).refreshToken]
  IN
      LET response == PostAuthRefresh(a.refreshToken, a.refreshTokens) IN
      IF a.refreshToken = NULL THEN [refreshed |-> FALSE, auth |-> a]
      ELSE IF response.status = 200
        THEN [refreshed |-> TRUE,
              auth |-> [a EXCEPT !.token = IF stale > 0 THEN "expired" ELSE "valid",
                                 !.refreshToken = response.refreshToken,
                                 !.refreshTokens = response.refreshTokens,
                                 !.retired = @ \cup {a.refreshToken}]]
        ELSE [refreshed |-> FALSE, auth |-> a]

\* a request through ModernAuth's axios instance: the response interceptor
\* refreshes on 401 "Token expired" and sends the request again through the
\* same instance; when the refresh fails the session is cleared and the
\* process exits
RECURSIVE InterceptedRequest(_, _)
InterceptedRequest(a, stale) ==
  LET answer == authenticateToken(a.token) IN
  IF answer.status = 401 /\ answer.error = "Token expired"
    THEN LET r == refreshToken(a, stale) IN
         IF r.refreshed
           THEN LET retry == InterceptedRequest(r.auth, IF stale > 0 THEN stale - 1 ELSE 0)
                IN [retry EXCEPT !.expired = TRUE, !.attempts = @ + 1,
                                 !.refreshes = @ + 1, !.refreshed = @ + 1]
           ELSE [ok |-> FALSE, expired |-> TRUE, attempts |-> 1, refreshes |-> 1,
                 refreshed |-> 0,
                 auth |-> [a EXCEPT !.token = "none", !.refreshToken = NULL]]
    ELSE [ok |-> answer.status = 200, expired |-> FALSE, attempts |-> 1,
          refreshes |-> 0, refreshed |-> 0, auth |-> a]

\* history: the call made through `via` and what it did
CallDone(via, res) ==
  [res.auth EXCEPT !.last = [via |-> via, ok |-> res.ok, expired |-> res.expired,
                             attempts |-> res.attempts, refreshes |-> res.refreshes,
                             refreshed |-> res.refreshed]]

\* the access token reaches its expiry time
TokenExpires ==
  /\ auth.token = "valid"
  /\ auth' = [auth EXCEPT !.token = "expired", !.last = NoCall]
  /\ UNCHANGED <<thisDir, elsewhere, accounts, cipher, srv>>

\* the server restarts: its in-memory refreshTokens set is empty again
ServerRestart ==
  /\ auth.refreshTokens # {}
  /\ auth' = [auth EXCEPT !.refreshTokens = {}, !.last = NoCall]
  /\ UNCHANGED <<thisDir, elsewhere, accounts, cipher, srv>>

\* ModernAuth.logout: POST /auth/logout when a token is stored, then the
\* session is cleared. The request has no body, so the handler, which
\* deletes req.body.refreshToken from the set, deletes nothing
Logout ==
  /\ auth.token # "none"
  /\ \E stale \in 0..MaxStale :
       LET res == InterceptedRequest(auth, stale) IN
       auth' = [CallDone("ModernAuth", res) EXCEPT
                  !.token = "none", !.refreshToken = NULL,
                  !.email = "", !.userId = NULL, !.localId = NULL, !.via = "none",
                  !.retired = @ \cup ({res.auth.refreshToken} \ {NULL})]
  /\ UNCHANGED <<thisDir, elsewhere, accounts, cipher, srv>>

\* any remote call of sync, push, pull, rename or remove
CloudCall ==
  LET
      \* a request through createAuthenticatedAxios (cloud.js, env-manager.js,
      \* project.js): a plain axios instance with the stored token
      PlainRequest(a) ==
        LET answer == authenticateToken(a.token) IN
        [ok |-> answer.status = 200,
         expired |-> answer.status = 401 /\ answer.error = "Token expired",
         attempts |-> 1, refreshes |-> 0, refreshed |-> 0, auth |-> a]
  IN
      /\ auth.token # "none"
      /\ auth' = CallDone("createAuthenticatedAxios", PlainRequest(auth))
      /\ UNCHANGED <<thisDir, elsewhere, accounts, cipher, srv>>

----------------------------------------------------------------------------
\* User accounts (db.js migrateDatabase and createUser, modern-auth.js,
\* server.js).

\* the machines the user runs the CLI on; the commands above run on the first
ThisDevice == "laptop"

Devices == {ThisDevice, "desktop"}

\* most values crypto.randomBytes(32) is asked for
MaxSalts == 3

\* SQL NULL of a text column
SqlNull == <<"null", 0>>

\* the n-th value crypto.randomBytes(32).toString("hex") returns
RandomSalt(n) == <<"randomBytes", n>>

\* no store file on any device, no account on the server
NoMigration == [op |-> "none", device |-> ThisDevice, before |-> [schema |-> "none", users |-> {}]]

NoAccounts ==
  [stores |-> [d \in Devices |-> [schema |-> "none", users |-> {}]],
   server |-> {}, drawn |-> 0, born |-> SqlNull, last |-> NoMigration]

\* dbOps.createUser: a salt is drawn for every call; email is UNIQUE
createUser(store, email, syncedToServer, drawn) ==
  LET
      \* insertUser as createUser runs it with the salt it drew
      insertUser(users, email_, encryptionSalt, syncedToServer_) ==
        users \cup {[id |-> Cardinality(users) + 1,
                     email |-> email_, encryption_salt |-> encryptionSalt,
                     createdAt |-> <<"timestamp", 1>>, lastLogin |-> SqlNull,
                     syncedToServer |-> <<"boolean", IF syncedToServer_ THEN 1 ELSE 0>>]}
  IN
      LET encryptionSalt == RandomSalt(drawn + 1) IN
      IF \E u \in store.users : u.email = email
        THEN [success |-> FALSE, store |-> store, drawn |-> drawn + 1, encryptionSalt |-> SqlNull]
        ELSE [success |-> TRUE, userId |-> Cardinality(store.users) + 1,
              store |-> [store EXCEPT !.users = insertUser(@, email, encryptionSalt, syncedToServer)],
              drawn |-> drawn + 1, encryptionSalt |-> encryptionSalt]

\* migrateDatabase on the users table; throws: a statement of the try block
\* fails
migrateDatabase(store, drawn, throws) ==
  LET
      \* INSERT INTO users_new SELECT * FROM users: the columns are matched by
      \* position, and ALTER TABLE ADD COLUMN has put encryption_salt last
      \* (users: id, email, passwordHash, createdAt, lastLogin, syncedToServer,
      \* encryption_salt; users_new: id, email, passwordHash, encryption_salt,
      \* createdAt, lastLogin, syncedToServer)
      InsertSelectStar(u) ==
        [id |-> u.id,
         email |-> u.email, encryption_salt |-> u.createdAt, createdAt |-> u.lastLogin,
         lastLogin |-> u.syncedToServer, syncedToServer |-> u.encryption_salt]
      \* the catch block of migrateDatabase: DROP TABLE IF EXISTS users, then
      \* CREATE TABLE users without encryption_salt
      MigrationCatch == [schema |-> "email", users |-> {}]
  IN
      LET tableInfo == store.schema
          hasUsername == tableInfo = "username"
          hasEmail == tableInfo \in {"email", "salted"}
          hasEncryptionSalt == tableInfo = "salted"
          existingUsers == {u \in store.users : u.encryption_salt = SqlNull}
          updateSalt == {[u EXCEPT !.encryption_salt = RandomSalt(drawn + 1)] : u \in existingUsers}
                          \cup (store.users \ existingUsers)
          users_new == {InsertSelectStar(u) : u \in updateSalt}
      IN IF throws THEN [store |-> MigrationCatch, drawn |-> drawn]
         ELSE IF hasUsername /\ ~hasEmail
           THEN [store |-> [schema |-> "salted", users |-> {}], drawn |-> drawn]
         ELSE IF ~hasUsername /\ ~hasEmail
           THEN [store |-> [schema |-> "salted", users |-> {}], drawn |-> drawn]
         ELSE IF hasEmail /\ ~hasEncryptionSalt
           THEN IF \E u \in users_new : u.encryption_salt = SqlNull
                  THEN [store |-> MigrationCatch, drawn |-> drawn + Cardinality(existingUsers)]
                  ELSE [store |-> [schema |-> "salted", users |-> users_new],
                        drawn |-> drawn + Cardinality(existingUsers)]
         ELSE [store |-> store, drawn |-> drawn]

\* POST /auth/register: 409 for a known email, else the server draws a salt
\* of its own and inserts the user
PostAuthRegister(server, email, drawn) ==
  IF \E u \in server : u.email = email
    THEN [status |-> 409, server |-> server, drawn |-> drawn]
    ELSE [status |-> 201, drawn |-> drawn + 1,
          server |-> server \cup {[email |-> email, encryption_salt |-> RandomSalt(drawn + 1)]}]

\* the salt the account was given when it was first created (observation)
Born(a, salt) == IF a.born = SqlNull THEN salt ELSE a.born

\* the state the commands above start in: the user has registered from
\* this device and is logged in
Registered ==
  LET server == PostAuthRegister({}, UserEmail, 0)
      localResult == createUser([schema |-> "salted", users |-> {}], UserEmail, TRUE,
                                server.drawn)
  IN [NoAccounts EXCEPT !.stores[ThisDevice] = localResult.store,
                        !.server = server.server,
                        !.drawn = localResult.drawn,
                        !.born = RandomSalt(1)]

\* token = null, refreshToken = null
NoTokens == [token |-> "none", refreshToken |-> NULL]

\* no session.json
LoggedOut ==
  [token |-> "none", refreshToken |-> NULL, refreshTokens |-> {}, last |-> NoCall,
   email |-> "", userId |-> NULL, localId |-> NULL, via |-> "none", retired |-> {}]

\* sessionManager.setCurrentUser(userEmail, userId, token, refreshToken) by
\* command via; tokens.refreshToken = NULL: a local session. The server has
\* added the refresh token it issued to its set
setCurrentUser(userEmail, userId, tokens, via, store) ==
  [token |-> tokens.token,
   refreshToken |-> tokens.refreshToken,
   refreshTokens |-> auth.refreshTokens \cup ({tokens.refreshToken} \ {NULL}),
   last |-> NoCall, email |-> userEmail, userId |-> userId,
   localId |-> IF \E u \in store.users : u.email = userEmail
                 THEN (CHOOSE u \in store.users : u.email = userEmail).id ELSE NULL,
   via |-> via, retired |-> auth.retired]

\* session.json after a command run on device d: another device has its
\* own session.json, the server's set is the same
SessionAfter(d, session) ==
  IF d = ThisDevice THEN session ELSE [auth EXCEPT !.refreshTokens = session.refreshTokens]

\* an earlier release of the CLI has left the store file of a device, with
\* the user in it
EarlierRelease ==
  LET
      \* a row of users as an earlier release inserted it (createdAt DEFAULT
      \* CURRENT_TIMESTAMP, lastLogin unset, syncedToServer 1)
      EarlierUser ==
        [id |-> 1,
         email |-> UserEmail, encryption_salt |-> SqlNull, createdAt |-> <<"timestamp", 0>>,
         lastLogin |-> SqlNull, syncedToServer |-> <<"boolean", 1>>]
  IN
      \E d \in Devices, schema \in {"username", "email"} :
         /\ accounts.stores[d].schema = "none"
         /\ accounts' = [accounts EXCEPT
               !.stores[d] = [schema |-> schema, users |-> {EarlierUser}],
               !.last = NoMigration]
         /\ UNCHANGED <<thisDir, elsewhere, auth, cipher, srv>>

\* the CLI starts on a device: db.js runs migrateDatabase
Startup ==
  \E d \in Devices, throws \in BOOLEAN :
     LET result == migrateDatabase(accounts.stores[d], accounts.drawn, throws)
     IN /\ result.drawn <= MaxSalts
        /\ accounts' = [accounts EXCEPT
              !.stores[d] = result.store,
              !.drawn = result.drawn,
              !.born = IF accounts.stores[d].schema = "email" /\ result.drawn > accounts.drawn
                         THEN Born(accounts, RandomSalt(result.drawn))
                         ELSE @,
              !.last = [op |-> "migrate", device |-> d, before |-> accounts.stores[d]]]
        /\ UNCHANGED <<thisDir, elsewhere, auth, cipher, srv>>

\* ModernAuth.register on a device whose store has been migrated
Register ==
  \E d \in Devices :
     LET store == accounts.stores[d]
         response == PostAuthRegister(accounts.server, UserEmail, accounts.drawn)
         localResult == createUser(store, UserEmail, TRUE, response.drawn)
         offline == createUser(store, UserEmail, FALSE, accounts.drawn)
     IN /\ store.schema = "salted"
        /\ accounts.drawn + 2 <= MaxSalts
        /\ IF net = "down"
             THEN \* registerOffline
                  /\ accounts' = [accounts EXCEPT
                        !.stores[d] = offline.store, !.drawn = offline.drawn,
                        !.born = IF offline.success THEN Born(accounts, offline.encryptionSalt)
                                 ELSE @,
                        !.last = NoMigration]
                  /\ auth' = IF offline.success
                               THEN SessionAfter(d, setCurrentUser(UserEmail, offline.userId, NoTokens,
                                                                   "register", offline.store))
                               ELSE auth
             ELSE IF response.status = 201
               THEN /\ accounts' = [accounts EXCEPT
                          !.server = response.server,
                          !.stores[d] = localResult.store,
                          !.drawn = localResult.drawn,
                          !.born = Born(accounts, RandomSalt(accounts.drawn + 1)),
                          !.last = NoMigration]
                    /\ auth' = SessionAfter(d, setCurrentUser(
                                   UserEmail,
                                   IF localResult.success THEN localResult.userId
                                   ELSE (CHOOSE u \in store.users : u.email = UserEmail).id,
                                   generateTokens(clock), "register", localResult.store))
               ELSE /\ accounts' = [accounts EXCEPT !.last = NoMigration]
                    /\ auth' = auth
        /\ UNCHANGED <<thisDir, elsewhere, cipher, srv>>

\* ModernAuth.login on a device whose store has been migrated
Login ==
  LET
      \* POST /auth/login with the right password
      PostAuthLogin(server, email) ==
        IF \E u \in server : u.email = email THEN [status |-> 200] ELSE [status |-> 401]
      \* dbOps.verifyUser with the right password: it writes the session
      \* itself and returns {success, user}
      verifyUser(store, email) ==
        IF \E u \in store.users : u.email = email
          THEN [success |-> TRUE, user |-> CHOOSE u \in store.users : u.email = email]
          ELSE [success |-> FALSE, error |-> "User not found locally"]
      \* object.name as JavaScript evaluates it
      Property(object, name) == IF name \in DOMAIN object THEN object[name] ELSE Undefined
  IN
      \E d \in Devices :
         LET store == accounts.stores[d]
             serverAuth == PostAuthLogin(accounts.server, UserEmail)
             existingLocalUser == {u \in store.users : u.email = UserEmail}
             localResult == createUser(store, UserEmail, TRUE, accounts.drawn)
             verified == verifyUser(store, UserEmail)
         IN /\ store.schema = "salted"
            /\ accounts.drawn + 1 <= MaxSalts
            /\ IF net = "down"
                 THEN \* the catch block: dbOps.verifyUser against the local row,
                      \* then setCurrentUser(email, localResult.userId, null, null)
                      /\ accounts' = [accounts EXCEPT !.last = NoMigration]
                      /\ auth' = IF verified.success
                                   THEN SessionAfter(d, setCurrentUser(
                                          UserEmail, Property(verified, "userId"), NoTokens,
                                          "login", store))
                                   ELSE auth
                 ELSE IF serverAuth.status = 200
                   THEN /\ accounts' =
                             IF existingLocalUser # {}
                               THEN [accounts EXCEPT !.last = NoMigration]
                               ELSE [accounts EXCEPT
                                       !.stores[d] = localResult.store,
                                       !.drawn = localResult.drawn,
                                       !.born = Born(accounts, localResult.encryptionSalt),
                                       !.last = NoMigration]
                        /\ auth' = SessionAfter(d, setCurrentUser(
                                       UserEmail,
                                       IF existingLocalUser # {}
                                         THEN (CHOOSE u \in existingLocalUser : TRUE).id
                                         ELSE localResult.userId,
                                       generateTokens(clock), "login",
                                       IF existingLocalUser # {} THEN store
                                       ELSE localResult.store))
                   ELSE /\ accounts' = [accounts EXCEPT !.last = NoMigration]
                        /\ auth' = auth
            /\ UNCHANGED <<thisDir, elsewhere, cipher, srv>>

----------------------------------------------------------------------------
\* The content cipher on its own (env-manager.js).

\* the users of the server
Emails == {UserEmail, "bob"}

\* salts of users and devices
Salts == {UserSalt, ForeignSalt, "s_bob"}

\* most ivs crypto.randomBytes(12) is asked for
MaxIvs == 2

\* the cipher has not been used
NoCipher ==
  [step |-> "none", content |-> "", userEmail |-> "", userSalt |-> "", iv |-> 0,
   encrypted |-> encryptContent("", "", "", 0), byEmail |-> "", bySalt |-> "",
   decrypted |-> ""]

\* encryptContent(content, userEmail, userSalt)
Encrypt ==
  /\ cipher.step = "read"
  /\ cipher' = [cipher EXCEPT
        !.step = "encrypted",
        !.encrypted = encryptContent(cipher.content, cipher.userEmail, cipher.userSalt,
                                     cipher.iv)]
  /\ UNCHANGED <<thisDir, elsewhere, auth, accounts, srv>>

\* decryptContent(encryptedContent, iv, tag, userEmail, userSalt) by any
\* user with any salt
Decrypt ==
  /\ cipher.step = "encrypted"
  /\ \E userEmail \in Emails, userSalt \in Salts :
       cipher' = [cipher EXCEPT
          !.step = "decrypted", !.byEmail = userEmail, !.bySalt = userSalt,
          !.decrypted = decryptContent(cipher.encrypted, userEmail, userSalt)]
  /\ UNCHANGED <<thisDir, elsewhere, auth, accounts, srv>>

----------------------------------------------------------------------------
\* Staging files (env-manager.js, ConfigManager).

\* other project directories of the user, each holding a project of its own
ProjectDirs == {"/srv/app", "/tmp/app", "/srv/api", "/tmp/api"}

\* ConfigManager.getProjectStagingPath: ~/.evm/projects/<basename>/staging.json
getProjectStagingPath(projectDir) ==
  LET
      \* path.basename
      basename(projectDir_) ==
        CASE projectDir_ = "/srv/app" -> "app"
          [] projectDir_ = "/tmp/app" -> "app"
          [] projectDir_ = "/srv/api" -> "api"
          [] projectDir_ = "/tmp/api" -> "api"
  IN
                                         <<"projects", basename(projectDir), "staging.json">>

StagingPaths == {getProjectStagingPath(dir) : dir \in ProjectDirs}

\* no file at the path
NoRecord == [projectId |-> "", files |-> {}]

\* files: the staging.json files by path; live: per project directory, what
\* its project has staged and not yet committed (observation only)
NoStagingFiles ==
  [files |-> [p \in StagingPaths |-> NoRecord], live |-> [dir \in ProjectDirs |-> NoRecord]]

\* saveStagedFiles, run in projectDir
saveStagedFiles(files, projectDir, stagedData) ==
  [files EXCEPT ![getProjectStagingPath(projectDir)] = stagedData]

\* loadStagedFiles, run in projectDir (NoRecord: null)
loadStagedFiles(files, projectDir) == files[getProjectStagingPath(projectDir)]

\* clearStagingArea, run in projectDir
clearStagingArea(files, projectDir) ==
  [files EXCEPT ![getProjectStagingPath(projectDir)] = NoRecord]

\* addEnvFiles in another project directory: the selected files are staged
\* for the project of that directory
AddEnvFilesIn ==
  \E projectDir \in ProjectDirs, sel \in SUBSET FileNames :
     LET stagedData == [projectId |-> projectDir, files |-> sel] IN
     /\ sel # {}
     /\ elsewhere' = [files |-> saveStagedFiles(elsewhere.files, projectDir, stagedData),
                      live |-> [elsewhere.live EXCEPT ![projectDir] = stagedData]]
     /\ UNCHANGED <<thisDir, auth, accounts, cipher, srv>>

\* pushStagedFiles in another project directory: the staged record is
\* loaded and committed, then the staging area is cleared
PushStagedFilesIn ==
  \E projectDir \in ProjectDirs :
     /\ loadStagedFiles(elsewhere.files, projectDir) # NoRecord
     /\ elsewhere' = [files |-> clearStagingArea(elsewhere.files, projectDir),
                      live |-> [elsewhere.live EXCEPT ![projectDir] = NoRecord]]
     /\ UNCHANGED <<thisDir, auth, accounts, cipher, srv>>

----------------------------------------------------------------------------
\* The server's handlers, one `await sql` at a time (evm-server/server.js).
\* Every statement is a query of its own: nothing groups the statements of
\* a handler into a transaction, and a handler that awaits lets the
\* statements of another request run in between.

\* requests the server handles at the same time
Slots == {1, 2}

\* requests sent to the server altogether
MaxSent == 3

\* a slot without a request
IdleSlot ==
  [route |-> "none", user |-> "", body |-> [user_email |-> ""], pc |-> "",
   projectId |-> NULL, envFileId |-> NULL, files |-> {}]

\* empty tables, no request in progress
NoRequests ==
  [projects |-> {}, env_files |-> {}, env_versions |-> {}, rollback_history |-> {},
   seq |-> 0, reqs |-> [s \in Slots |-> IdleSlot], sent |-> 0, by |-> ""]

\* a handler that looks the project up by its name alone
SelectProjectOfAnyone(t, userId, projectName) ==
  {p \in t.projects : p.name = projectName}

\* SELECT id FROM projects WHERE user_id = ${userId} AND name = ${project_name}
SelectProject(t, userId, projectName) ==
  {p \in t.projects : p.user_id = userId /\ p.name = projectName}

\* SELECT id FROM env_files WHERE project_id = ${projectId} AND name = ${file_name}
SelectEnvFile(t, projectId, fileName) ==
  {f \in t.env_files : f.project_id = projectId /\ f.name = fileName}

\* the server after request q in slot s ran one statement: its tables are
\* t and the request goes on as q2 (IdleSlot: the response is sent)
Awaited(t, s, q, q2) == [t EXCEPT !.reqs[s] = q2, !.by = q.user]

\* the first statements of the handlers that need an existing file: the
\* project of req.user, then the file in it; 404 when either is missing
FindEnvFile(s, q) ==
  \/ /\ q.pc = "project"
     /\ LET projectResult == SelectProject(srv, q.user, q.body.project_name) IN
        IF projectResult = {} THEN srv' = Awaited(srv, s, q, IdleSlot)
        ELSE \E p \in projectResult :
               srv' = Awaited(srv, s, q, [q EXCEPT !.pc = "file", !.projectId = p.id])
  \/ /\ q.pc = "file"
     /\ LET envFileResult == SelectEnvFile(srv, q.projectId, q.body.file_name) IN
        IF envFileResult = {} THEN srv' = Awaited(srv, s, q, IdleSlot)
        ELSE \E f \in envFileResult :
               srv' = Awaited(srv, s, q, [q EXCEPT !.pc = "found", !.envFileId = f.id])

\* a client sends a request: the user is the one of its access token
\* (authenticateToken), the body is whatever the client wrote
Send ==
  LET Routes == {"POST /env-files", "POST /env-versions", "POST /rollback-history",
                 "DELETE /projects", "DELETE /env-files"}
  IN
      /\ srv.sent < MaxSent
      /\ \E s \in Slots, route \in Routes, user \in Emails, email \in Emails :
           /\ srv.reqs[s] = IdleSlot
           /\ srv' = [srv EXCEPT
                        !.sent = @ + 1,
                        !.reqs[s] = [IdleSlot EXCEPT
                                       !.route = route, !.user = user, !.pc = "project",
                                       !.body = [user_email |-> email,
                                                 project_name |-> ProjectName,
                                                 file_name |-> FileOrder[1],
                                                 content |-> user,
                                                 version_token |-> 1,
                                                 from_version_token |-> 1,
                                                 to_version_token |-> 1,
                                                 created_at |-> 0]]]
      /\ UNCHANGED <<thisDir, elsewhere, auth, accounts, cipher>>

\* POST /env-files
PostEnvFilesAwait ==
  /\ \E s \in Slots :
       LET q == srv.reqs[s] IN
       /\ q.route = "POST /env-files"
       /\ \/ /\ q.pc = "project"
             /\ LET projectResult == SelectProject(srv, q.user, q.body.project_name) IN
                IF projectResult = {}
                  THEN srv' = Awaited(srv, s, q, [q EXCEPT !.pc = "newProject"])
                  ELSE \E p \in projectResult :
                         srv' = Awaited(srv, s, q, [q EXCEPT !.pc = "file", !.projectId = p.id])
          \/ /\ q.pc = "newProject"
             /\ srv' = Awaited([srv EXCEPT
                                  !.seq = @ + 1,
                                  !.projects = @ \cup {[id |-> srv.seq + 1, user_id |-> q.user,
                                                        name |-> q.body.project_name]}],
                               s, q, [q EXCEPT !.pc = "file", !.projectId = srv.seq + 1])
          \/ /\ q.pc = "file"
             /\ LET existingFile == SelectEnvFile(srv, q.projectId, q.body.file_name) IN
                IF existingFile = {}
                  THEN srv' = Awaited(srv, s, q, [q EXCEPT !.pc = "insert"])
                  ELSE \E f \in existingFile :
                         srv' = Awaited(srv, s, q, [q EXCEPT !.pc = "update", !.envFileId = f.id])
          \/ /\ q.pc = "update"
             /\ srv' = Awaited([srv EXCEPT
                                  !.env_files = {IF f.id = q.envFileId
                                                   THEN [f EXCEPT !.content = q.body.content]
                                                   ELSE f : f \in @}],
                               s, q, IdleSlot)
          \/ /\ q.pc = "insert"
             /\ srv' = Awaited([srv EXCEPT
                                  !.seq = @ + 1,
                                  !.env_files = @ \cup {[id |-> srv.seq + 1,
                                                         project_id |-> q.projectId,
                                                         name |-> q.body.file_name,
                                                         content |-> q.body.content]}],
                               s, q, IdleSlot)
  /\ UNCHANGED <<thisDir, elsewhere, auth, accounts, cipher>>

\* POST /env-versions
PostEnvVersionsAwait ==
  /\ \E s \in Slots :
       LET q == srv.reqs[s]
           existingVersion ==
             {v \in srv.env_versions : /\ v.env_file_id = q.envFileId
                                       /\ v.version_token = q.body.version_token}
       IN
       /\ q.route = "POST /env-versions"
       /\ \/ FindEnvFile(s, q)
          \/ /\ q.pc = "found"
             /\ srv' = Awaited(srv, s, q,
                               IF existingVersion = {} THEN [q EXCEPT !.pc = "insert"]
                               ELSE IdleSlot)
          \/ /\ q.pc = "insert"
             /\ srv' = Awaited([srv EXCEPT
                                  !.seq = @ + 1,
                                  !.env_versions = @ \cup
                                    {[id |-> srv.seq + 1, env_file_id |-> q.envFileId,
                                      version_token |-> q.body.version_token,
                                      content |-> q.body.content]}],
                               s, q, IdleSlot)
  /\ UNCHANGED <<thisDir, elsewhere, auth, accounts, cipher>>

\* POST /rollback-history
PostRollbackHistoryAwait ==
  /\ \E s \in Slots :
       LET q == srv.reqs[s]
           existingRollback ==
             {r \in srv.rollback_history :
                /\ r.env_file_id = q.envFileId
                /\ r.from_version_token = q.body.from_version_token
                /\ r.to_version_token = q.body.to_version_token
                /\ r.created_at = q.body.created_at}
       IN
       /\ q.route = "POST /rollback-history"
       /\ \/ FindEnvFile(s, q)
          \/ /\ q.pc = "found"
             /\ srv' = Awaited(srv, s, q,
                               IF existingRollback = {} THEN [q EXCEPT !.pc = "insert"]
                               ELSE IdleSlot)
          \/ /\ q.pc = "insert"
             /\ srv' = Awaited([srv EXCEPT
                                  !.seq = @ + 1,
                                  !.rollback_history = @ \cup
                                    {[id |-> srv.seq + 1, env_file_id |-> q.envFileId,
                                      from_version_token |-> q.body.from_version_token,
                                      to_version_token |-> q.body.to_version_token,
                                      created_at |-> q.body.created_at]}],
                               s, q, IdleSlot)
  /\ UNCHANGED <<thisDir, elsewhere, auth, accounts, cipher>>

\* DELETE /env-files
DeleteEnvFilesAwait ==
  /\ \E s \in Slots :
       LET q == srv.reqs[s] IN
       /\ q.route = "DELETE /env-files"
       /\ \/ FindEnvFile(s, q)
          \/ /\ q.pc = "found"
             /\ srv' = Awaited([srv EXCEPT
                                  !.env_versions = {v \in @ : v.env_file_id # q.envFileId}],
                               s, q, [q EXCEPT !.pc = "rollbacks"])
          \/ /\ q.pc = "rollbacks"
             /\ srv' = Awaited([srv EXCEPT
                                  !.rollback_history = {r \in @ : r.env_file_id # q.envFileId}],
                               s, q, [q EXCEPT !.pc = "envFile"])
          \/ /\ q.pc = "envFile"
             /\ srv' = Awaited([srv EXCEPT !.env_files = {f \in @ : f.id # q.envFileId}],
                               s, q, IdleSlot)
  /\ UNCHANGED <<thisDir, elsewhere, auth, accounts, cipher>>

\* DELETE /projects
DeleteProjectsAwait ==
  /\ \E s \in Slots :
       LET q == srv.reqs[s] IN
       /\ q.route = "DELETE /projects"
       /\ \/ /\ q.pc = "project"
             /\ LET projectResult == SelectProject(srv, q.user, q.body.project_name) IN
                IF projectResult = {} THEN srv' = Awaited(srv, s, q, IdleSlot)
                ELSE \E p \in projectResult :
                       srv' = Awaited(srv, s, q,
                                      [q EXCEPT !.pc = "envFiles", !.projectId = p.id])
          \/ /\ q.pc = "envFiles"
             /\ LET envFiles == {f.id : f \in {g \in srv.env_files :
                                                 g.project_id = q.projectId}} IN
                srv' = Awaited(srv, s, q,
                               IF envFiles = {} THEN [q EXCEPT !.pc = "allFiles"]
                               ELSE [q EXCEPT !.pc = "versions", !.files = envFiles])
          \/ /\ q.pc = "versions"
             /\ \E envFile \in q.files :
                  srv' = Awaited([srv EXCEPT
                                    !.env_versions = {v \in @ : v.env_file_id # envFile}],
                                 s, q, [q EXCEPT !.pc = "rollbacks", !.envFileId = envFile])
          \/ /\ q.pc = "rollbacks"
             /\ srv' = Awaited([srv EXCEPT
                                  !.rollback_history = {r \in @ : r.env_file_id # q.envFileId}],
                               s, q,
                               IF q.files = {q.envFileId} THEN [q EXCEPT !.pc = "allFiles"]
                               ELSE [q EXCEPT !.pc = "versions",
                                              !.files = @ \ {q.envFileId}])
          \/ /\ q.pc = "allFiles"
             /\ srv' = Awaited([srv EXCEPT
                                  !.env_files = {f \in @ : f.project_id # q.projectId}],
                               s, q, [q EXCEPT !.pc = "delete"])
          \/ /\ q.pc = "delete"
             /\ srv' = Awaited([srv EXCEPT !.projects = {p \in @ : p.id # q.projectId}],
                               s, q, IdleSlot)
  /\ UNCHANGED <<thisDir, elsewhere, auth, accounts, cipher>>

----------------------------------------------------------------------------
\* Initial state: a fresh store after migrateDatabase, an empty project
\* directory, nothing staged, an empty remote.

\* no local-store failure is injected
InitLocal ==
  /\ db = EmptyDb
  /\ disk = [f \in FileNames |-> Absent]
  /\ staging = NoStaging
  /\ clock = 0
  /\ rand = [token |-> 1, iv |-> 1, foreign |-> 0]
  /\ remote = EmptyRemote
  /\ run = Idle
  /\ net = "down"
  /\ faults = MaxFaults
  /\ hist = InitHist
  /\ elsewhere = NoStagingFiles
  /\ auth = LoggedIn
  /\ accounts = Registered
  /\ cipher = NoCipher
  /\ srv = NoRequests

----------------------------------------------------------------------------
\* Environment: time passes, the user edits or removes a file on disk.

Tick ==
  /\ clock < MaxClock
  /\ clock' = clock + 1
  /\ hist' = Forget(hist)
  /\ UNCHANGED <<db, disk, staging, rand, remote, run, net, faults, elsewhere, auth, accounts, cipher, srv>>

\* the user writes new content to one of the files F
Edit(F) ==
  /\ run.kind = "idle"
  /\ ~staging.staged
  /\ \E f \in F, p \in Plain :
       /\ disk[f] # p
       /\ disk' = [disk EXCEPT ![f] = p]
  /\ hist' = Forget(hist)
  /\ UNCHANGED <<db, staging, clock, rand, remote, run, net, faults, elsewhere, auth, accounts, cipher, srv>>

EditFile == Edit(FileNames)

\* a project with a single environment file
EditFirstFile == Edit({FileOrder[1]})

\* the user deletes the environment file from the project directory
RemoveFile ==
  /\ run.kind = "idle"
  /\ ~staging.staged
  /\ disk[FileOrder[1]] # Absent
  /\ disk' = [disk EXCEPT ![FileOrder[1]] = Absent]
  /\ hist' = Forget(hist)
  /\ UNCHANGED <<db, staging, clock, rand, remote, run, net, faults, elsewhere, auth, accounts, cipher, srv>>

----------------------------------------------------------------------------
\* Staging area.

\* hasFileChanged: compares the disk content with versions[0] of
\* getVersionsByEnvFile (newest createdAt first)
hasFileChanged(d, fileName, currentContent) ==
  LET existingFile == getEnvFileByProjectAndName(d, fileName) IN
  \/ existingFile = {}
  \/ \E file \in existingFile :
       LET latest == getVersionsByEnvFileFirst(d, file.id) IN
       \/ latest = {}
       \/ \E latestVersion \in latest :
            currentContent # decryptContent(latestVersion.content, UserEmail, UserSalt)

\* addEnvFiles: stage a selection of the changed files (saveStagedFiles)
AddEnvFiles ==
  LET
      \* selected files in directory order, with the content read from disk
      StagedFilesOf(sel) ==
        LET names == SelectSeq(FileOrder, LAMBDA f : f \in sel) IN
        [i \in 1..Len(names) |-> [name |-> names[i], content |-> disk[names[i]]]]
  IN
      /\ run.kind = "idle"
      /\ db.projects # {}
      /\ \E sel \in SUBSET {f \in FileNames : disk[f] # Absent /\ hasFileChanged(db, f, disk[f])} :
           /\ sel # {}
           /\ staging' = [staged |-> TRUE, isRevert |-> FALSE, files |-> StagedFilesOf(sel)]
      /\ hist' = Forget(hist)
      /\ UNCHANGED <<db, disk, clock, rand, remote, run, net, faults, elsewhere, auth, accounts, cipher, srv>>

----------------------------------------------------------------------------
\* Sync reconciler: the position of a run between two remote calls.

PushPhases == {"file", "versions", "rollbacks"}

\* skip the loops that have nothing left; phase "done": the command returns
RECURSIVE Settle(_, _)
Settle(r, d) ==
  LET
      \* rows of S in rowid order
      OrderById(S) ==
        CHOOSE s \in Perms(S) : \A i, j \in 1..Cardinality(S) : i < j => s[i].id < s[j].id
  IN
      CASE r.phase = "replay" /\ r.ops = <<>> ->
             \* handleSync: getEnvFilesByProject after the replay loop
             Settle([r EXCEPT !.phase = "file",
                              !.files = [i \in 1..Cardinality(d.env_files) |->
                                           OrderById(d.env_files)[i].name]], d)
        [] r.phase = "file" /\ r.files = <<>> -> [r EXCEPT !.phase = "done"]
        [] r.phase = "file" /\ getEnvFileByProjectAndName(d, Head(r.files)) = {} ->
             \* syncSpecificFiles: `if (!envFile.success) continue`
             Settle([r EXCEPT !.files = Tail(@)], d)
        [] r.phase = "versions" /\ r.vers = <<>> -> Settle([r EXCEPT !.phase = "rollbacks"], d)
        [] r.phase = "rollbacks" /\ r.rbs = <<>> ->
             Settle([r EXCEPT !.phase = "file", !.cur = ""], d)
        [] OTHER -> r

\* a remote call of the push loops failed: syncSpecificFiles rethrows and
\* the push ends; handleSync catches, logs and goes on with the next item
AfterFailure(r, next) ==
  IF r.kind = "push" THEN [r EXCEPT !.phase = "done", !.failed = TRUE]
  ELSE [next EXCEPT !.failed = TRUE]

\* the run goes on from position r, or the command has returned
Continue(r, h) ==
  /\ run' = IF r.phase = "done" THEN Idle ELSE r
  /\ hist' = IF r.phase = "done"
               THEN [EndRun(h) EXCEPT
                       !.last = [NoLast EXCEPT !.op = r.kind, !.ok = TRUE,
                                   !.calls = r.calls, !.reached = r.reached,
                                   !.opsBefore = h.opsBefore,
                                   !.failed = r.failed, !.left = Range(r.files)]]
               ELSE [h EXCEPT !.last = NoLast]

----------------------------------------------------------------------------
\* pushStagedFiles: commit the staged files, clear the staging area, then
\* continue with syncSpecificFiles over the staged files.

PushStagedFiles ==
  LET
      \* where one file's commit stops: "ok", or the step that throws
      CommitOutcomes == {"ok", "encrypt", "file", "insert", "head"}
      \* history: commits of a file since its creation, -1 once anything else than
      \* a successful commit has written to the file
      PureAfterCommit(pure, files, outs) ==
        [f \in FileNames |->
           LET idx == {i \in 1..Len(files) : files[i].name = f} IN
           IF idx = {} THEN pure[f]
           ELSE LET out == outs[CHOOSE i \in idx : TRUE] IN
                IF out = "ok" THEN (IF pure[f] >= 0 THEN pure[f] + 1 ELSE pure[f])
                ELSE IF out \in {"insert", "head"} THEN -1
                ELSE pure[f]]
      \* history: the staged files whose commit went through (ok) or stopped (~ok)
      StagedNames(st, outs, ok) ==
        IF st.isRevert THEN {}
        ELSE {st.files[i].name : i \in {j \in 1..Len(st.files) : (outs[j] = "ok") = ok}}
  IN
      /\ run.kind = "idle"
      /\ db.projects # {}
      /\ staging.staged
      /\ db.seqVersion + Len(staging.files) <= MaxVersions
      /\ \E outs \in [1..Len(staging.files) -> CommitOutcomes] :
           LET failed == Cardinality({i \in 1..Len(outs) : outs[i] # "ok"})
               res == IF staging.isRevert
                        THEN [db |-> db, rand |-> rand, count |-> Len(staging.files), made |-> 0]
                        ELSE commitLoop(db, rand, staging.files, outs, clock)
           IN /\ faults + failed <= MaxFaults
              /\ faults' = faults + failed
              /\ db' = res.db
              /\ rand' = res.rand
              /\ hist' = [hist EXCEPT
                    !.last = [NoLast EXCEPT !.op = "commit", !.ok = TRUE,
                                            !.count = res.count, !.made = res.made,
                                            !.storeBefore = db,
                                            !.committed = StagedNames(staging, outs, TRUE),
                                            !.notCommitted = StagedNames(staging, outs, FALSE)],
                    !.pure = IF staging.isRevert THEN hist.pure
                             ELSE PureAfterCommit(hist.pure, staging.files, outs),
                    !.opsBefore = {o.id : o \in db.pending_operations}]
              /\ LET r == Settle([Idle EXCEPT !.kind = "push", !.phase = "file",
                                    !.files = [i \in 1..Len(staging.files) |->
                                                 staging.files[i].name]], db')
                 IN run' = IF r.phase = "done" THEN Idle ELSE r
      /\ staging' = NoStaging
      /\ UNCHANGED <<disk, clock, remote, net, elsewhere, auth, accounts, cipher, srv>>

----------------------------------------------------------------------------
\* handleRevert (commands/project.js): roll the file of the commit back.

\* commit hashes the user may type: every known token and an unknown one
CommitHashes == {v.version_token : v \in db.env_versions} \cup {UnknownToken}

HandleRevert ==
  LET
      \* statements of rollbackToVersion run before one throws (4 = none throws)
      RollbackStops == 0..4
      \* the version rollbackToVersion links the new version to and records as "from"
      RollbackCurrentVersion(d, envFileId) == getVersionsByEnvFileFirst(d, envFileId)
  IN
      /\ run.kind = "idle"
      /\ db.seqRollback < MaxRollbacks
      /\ \E commitHash \in CommitHashes :
           LET matchingVersions == getVersionByToken(db, commitHash) IN
           IF Cardinality(matchingVersions) # 1
             THEN /\ hist' = [hist EXCEPT
                        !.last = [NoLast EXCEPT !.op = "revert", !.hash = commitHash,
                                    !.storeBefore = db, !.diskBefore = disk]]
                  /\ UNCHANGED <<db, disk, rand, faults>>
             ELSE
               LET targetVersion == CHOOSE v \in matchingVersions : TRUE
                   envFileId == targetVersion.env_file_id
                   envFile == CHOOSE f \in getEnvFileById(db, envFileId) : TRUE
                   current == RollbackCurrentVersion(db, envFileId)
               IN /\ getEnvFileById(db, envFileId) # {}
                  /\ \E cur \in (IF current = {} THEN {NULL} ELSE {v.id : v \in current}),
                        stop \in RollbackStops, diskOk \in BOOLEAN :
                       LET res == rollbackToVersion(db, envFileId, targetVersion, cur,
                                                    rand.token, clock, stop)
                           failed == (IF stop < 4 THEN 1 ELSE 0) +
                                     (IF stop = 4 /\ ~diskOk THEN 1 ELSE 0)
                       IN /\ stop < 4 => diskOk
                          /\ faults + failed <= MaxFaults
                          /\ faults' = faults + failed
                          /\ db' = res.db
                          /\ rand' = [rand EXCEPT !.token = IF stop >= 2 THEN @ + 1 ELSE @]
                          /\ disk' = LET decryptedContent ==
                                            decryptContent(targetVersion.content,
                                                           UserEmail, UserSalt)
                                      IN IF res.success /\ diskOk
                                            /\ decryptedContent # DecryptError
                                           THEN [disk EXCEPT ![envFile.name] = decryptedContent]
                                           ELSE disk
                          /\ hist' = [hist EXCEPT
                                !.last = [NoLast EXCEPT !.op = "revert", !.ok = res.success,
                                            !.file = envFileId, !.target = targetVersion.id,
                                            !.prevHead = envFile.current_version_id,
                                            !.newId = res.newVersionId,
                                            !.rbBefore = {r.id : r \in db.rollback_history},
                                            !.hash = commitHash,
                                            !.storeBefore = db, !.diskBefore = disk],
                                !.pure = IF stop = 0 THEN @ ELSE [@ EXCEPT ![envFile.name] = -1]]
      /\ UNCHANGED <<staging, clock, remote, run, net, elsewhere, auth, accounts, cipher, srv>>

\* handleRevert (commands/workflow variant): decrypt the files of the commit
\* and stage them for the next push; the staging call throws, the handler
\* catches it and reports "Revert failed"
HandleRevertStaged ==
  LET
      \* module.exports of env-manager.js does not list saveStagedFiles: the
      \* `const { saveStagedFiles } = require("../env-manager")` of the workflow
      \* handleRevert binds undefined and the call throws a TypeError
      SaveStagedFilesExported == FALSE
  IN
      /\ run.kind = "idle"
      /\ \E commitHash \in CommitHashes :
           LET targetVersions == getVersionByToken(db, commitHash)
               names == {f.name : f \in {g \in db.env_files :
                                           \E v \in targetVersions : v.env_file_id = g.id}}
               contentOf(n) ==
                 LET v == CHOOSE w \in targetVersions :
                            \E g \in db.env_files : g.id = w.env_file_id /\ g.name = n
                 IN decryptContent(v.content, UserEmail, UserSalt)
               ordered == SelectSeq(FileOrder, LAMBDA f : f \in names)
           IN /\ names # {}
              /\ staging' = IF SaveStagedFilesExported
                              THEN [staged |-> TRUE, isRevert |-> FALSE,
                                    files |-> [i \in 1..Len(ordered) |->
                                      [name |-> ordered[i], content |-> contentOf(ordered[i])]]]
                              ELSE staging
              /\ hist' = [hist EXCEPT
                    !.last = [NoLast EXCEPT !.op = "revert_staged", !.ok = SaveStagedFilesExported,
                                !.target = (CHOOSE w \in targetVersions : TRUE).id,
                                !.file = (CHOOSE w \in targetVersions : TRUE).env_file_id,
                                !.rbBefore = {r.id : r \in db.rollback_history}]]
      /\ UNCHANGED <<db, disk, clock, rand, remote, run, net, faults, elsewhere, auth, accounts, cipher, srv>>

----------------------------------------------------------------------------
\* Remote server (evm-server/server.js): one handler per endpoint, as a
\* function from the server's database and the request to the new database
\* and the HTTP status.

\* POST /env-files
PostEnvFiles(rm, req) ==
  LET rm1 == [rm EXCEPT !.projects = @ \cup {ProjectName}]
      existingFile == {f \in rm.env_files : f.name = req.file_name}
  IN IF existingFile # {}
       THEN [status |-> 200,
             remote |-> [rm1 EXCEPT !.env_files =
                {IF f.name = req.file_name
                   THEN [f EXCEPT !.content = req.content, !.updated_at = req.updated_at]
                   ELSE f : f \in rm.env_files}]]
       ELSE [status |-> 200,
             remote |-> [rm1 EXCEPT
                !.env_files = @ \cup
                  {[id |-> req.file_name, name |-> req.file_name, content |-> req.content,
                    created_at |-> req.created_at, updated_at |-> req.updated_at]}]]

\* a server that does not look for the version before it inserts
NoExistingVersion(rm, envFileId, versionToken) == {}

\* POST /env-versions: the check whether the version already exists
ExistingVersion(rm, envFileId, versionToken) ==
  {v \in rm.env_versions : v.env_file_id = envFileId /\ v.version_token = versionToken}

\* POST /env-versions
PostEnvVersions(rm, req) ==
  LET envFileResult == {f \in rm.env_files : f.name = req.file_name} IN
  IF ProjectName \notin rm.projects \/ envFileResult = {}
    THEN [status |-> 404, remote |-> rm]
    ELSE LET envFileId == (CHOOSE f \in envFileResult : TRUE).id IN
         IF ExistingVersion(rm, envFileId, req.version_token) = {}
           THEN [status |-> 200,
                 remote |-> [rm EXCEPT
                    !.env_versions = @ \cup
                      {[id |-> 1 + Cardinality({v \in rm.env_versions :
                                                  /\ v.env_file_id = envFileId
                                                  /\ v.version_token = req.version_token}),
                        env_file_id |-> envFileId,
                        version_token |-> req.version_token, content |-> req.content,
                        created_at |-> req.created_at]}]]
           ELSE [status |-> 200, remote |-> rm]

\* POST /rollback-history
PostRollbackHistory(rm, req) ==
  LET envFileResult == {f \in rm.env_files : f.name = req.file_name} IN
  IF ProjectName \notin rm.projects \/ envFileResult = {}
    THEN [status |-> 404, remote |-> rm]
    ELSE LET envFileId == (CHOOSE f \in envFileResult : TRUE).id
             existingRollback ==
               {r \in rm.rollback_history :
                  /\ r.env_file_id = envFileId
                  /\ r.from_version_token = req.from_version_token
                  /\ r.to_version_token = req.to_version_token
                  /\ r.created_at = req.created_at}
         IN IF existingRollback = {}
              THEN [status |-> 200,
                    remote |-> [rm EXCEPT
                       !.rollback_history = @ \cup
                         {[env_file_id |-> envFileId,
                           from_version_token |-> req.from_version_token,
                           to_version_token |-> req.to_version_token,
                           created_at |-> req.created_at]}]]
              ELSE [status |-> 200, remote |-> rm]

\* DELETE /env-files
DeleteEnvFiles(rm, req) ==
  LET envFileResult == {f \in rm.env_files : f.name = req.file_name} IN
  IF ProjectName \notin rm.projects \/ envFileResult = {}
    THEN [status |-> 404, remote |-> rm]
    ELSE LET envFileId == (CHOOSE f \in envFileResult : TRUE).id IN
         [status |-> 200,
          remote |-> [rm EXCEPT
             !.env_versions = {v \in @ : v.env_file_id # envFileId},
             !.rollback_history = {r \in @ : r.env_file_id # envFileId},
             !.env_files = {f \in @ : f.id # envFileId}]]

\* DELETE /projects
DeleteProjects(rm, req) ==
  IF req.project_name \notin rm.projects
    THEN [status |-> 404, remote |-> rm]
    ELSE [status |-> 200,
          remote |-> [rm EXCEPT !.rollback_history = {}, !.env_versions = {},
                                !.env_files = {}, !.projects = @ \ {req.project_name}]]

\* server.js registers no PUT /env-files/rename and no PUT /projects/rename
\* route: express answers 404
PutRename(rm, req) == [status |-> 404, remote |-> rm]

----------------------------------------------------------------------------
\* The network between the CLI and the server.

\* "ok": handled and answered; "lost": handled, the answer times out;
\* "auth": rejected with 401 Token expired; "refused": ECONNREFUSED
NetOutcomes ==
  IF net = "up" THEN {"ok", "lost", "auth"}
  ELSE IF net = "steady" THEN {"ok"}
  ELSE {"refused"}

\* the server's database after a call with outcome o
RemoteAfter(o, res) == IF o \in {"ok", "lost"} THEN res.remote ELSE remote

\* axios resolves (2xx) and response.data.success is true
CallSucceeded(o, res) == o = "ok" /\ res.status = 200

\* history of the acknowledged POST /env-versions: the pair p
Answered(h, p, o, res) ==
  [h EXCEPT !.acked = IF CallSucceeded(o, res) THEN @ \cup {p} ELSE @]

\* the run after one more remote call
Called(r, o) ==
  [r EXCEPT !.calls = 1, !.reached = IF o = "refused" THEN @ ELSE 1, !.again = {}]

\* the run after POST /env-versions for the pair p was acknowledged: the
\* server had the version already ("already exists, skipping") or not
CalledVersion(r, o, res, p) ==
  [Called(r, o) EXCEPT
     !.again = IF CallSucceeded(o, res) /\ res.remote = remote THEN {p} ELSE {}]

----------------------------------------------------------------------------
\* Requests built by the client.

FileRequest(envFile) ==
  [file_name |-> envFile.name, content |-> envFile.content,
   created_at |-> envFile.createdAt, updated_at |-> envFile.updatedAt]

VersionRequest(fileName, version) ==
  [file_name |-> fileName, version_token |-> version.version_token,
   content |-> version.content, created_at |-> version.createdAt]

VersionById(d, id) == CHOOSE v \in d.env_versions : v.id = id
OperationById(d, id) == CHOOSE o \in d.pending_operations : o.id = id
\* ids of a sequence of rows
Ids(rows) == [i \in 1..Len(rows) |-> rows[i].id]

\* a replay loop that leaves a replayed operation in the queue
KeepQueued(d, operationId) == d

\* what the replay loop does with an operation once its remote calls succeeded
AfterReplaySuccess(d, operationId) ==
  LET
      \* dbOps.markOperationAsProcessed
      markOperationAsProcessed(d_, operationId_) ==
        [d_ EXCEPT !.pending_operations =
           {IF o.id = operationId_ THEN [o EXCEPT !.processed = TRUE] ELSE o
              : o \in d_.pending_operations}]
  IN
                                          markOperationAsProcessed(d, operationId)

\* push loops that mark a version whatever the outcome of the call
MarkAlways(okc) == TRUE

\* push loops that go on to the versions of a file whatever the answer to
\* the upsert of the file
UpsertIgnored(o, res) == TRUE

\* `if (response.data.success)` after `await api.post("/env-files", ...)`:
\* the versions and rollbacks of the file are read and sent inside
UpsertAcknowledged(o, res) == CallSucceeded(o, res)

\* history of the run's POST /env-files calls
Upserted(h, fileName, o, res) ==
  [h EXCEPT !.upserted = IF CallSucceeded(o, res) THEN fileName ELSE ""]

\* when the push loops mark a version: on the acknowledgment only
MarkOnAck(okc) == okc

----------------------------------------------------------------------------
\* handleSync: start of a run. The pending operations are read first.

HandleSync ==
  /\ run.kind = "idle"
  /\ LET ops == Ids(getPendingOperations(db))
         h == [hist EXCEPT
                 !.queued = {o.id : o \in {q \in db.pending_operations : ~q.processed}},
                 !.attempted = <<>>, !.succeeded = {},
                 !.opsBefore = {o.id : o \in db.pending_operations}]
     IN Continue(Settle([Idle EXCEPT !.kind = "sync", !.phase = "replay", !.ops = ops], db), h)
  /\ UNCHANGED <<db, disk, staging, clock, rand, remote, net, faults, elsewhere, auth, accounts, cipher, srv>>

\* replay loop: one pending operation (its first remote call, if it makes one)
ReplayOpStep ==
  /\ run.phase = "replay"
  /\ LET operation == OperationById(db, Head(run.ops))
         kind == <<operation.operation_type, operation.entity_type>>
         next == [run EXCEPT !.ops = Tail(@)]
         h == [hist EXCEPT !.attempted = Append(@, operation.id)]
         hs == [h EXCEPT !.succeeded = @ \cup {operation.id}]
     IN
     IF kind \in {<<"RENAME", "FILE">>, <<"RENAME", "PROJECT">>, <<"DELETE", "FILE">>}
       THEN \E o \in NetOutcomes :
              LET res == IF operation.operation_type = "RENAME"
                           THEN PutRename(remote, [old_name |-> operation.old_name])
                           ELSE DeleteEnvFiles(remote, [file_name |-> operation.old_name])
                  opSuccess == CallSucceeded(o, res)
              IN /\ remote' = RemoteAfter(o, res)
                 /\ db' = IF opSuccess THEN AfterReplaySuccess(db, operation.id) ELSE db
                 /\ Continue(Settle(Called(next, o), db'), IF opSuccess THEN hs ELSE h)
     ELSE IF kind = <<"SYNC", "FILE">> /\ getEnvFileById(db, operation.entity_id) # {}
       THEN \E o \in NetOutcomes :
              LET envFile == CHOOSE f \in getEnvFileById(db, operation.entity_id) : TRUE
                  res == PostEnvFiles(remote, FileRequest(envFile))
                  unsynced == UnsyncedVersionsOfFile(db, envFile.id)
                  hu == Upserted(h, envFile.name, o, res)
              IN /\ remote' = RemoteAfter(o, res)
                 /\ IF ~UpsertAcknowledged(o, res)
                      THEN /\ db' = db
                           /\ Continue(Settle(Called(next, o), db'), hu)
                      ELSE IF operation.isPush /\ unsynced # {}
                        THEN /\ db' = db
                             /\ \E vs \in OrderByCreatedAtDesc(unsynced) :
                                  Continue([Called(run, o) EXCEPT !.phase = "opversions",
                                              !.cur = envFile.name, !.opv = Ids(vs)], hu)
                        ELSE /\ db' = AfterReplaySuccess(db, operation.id)
                             /\ Continue(Settle(Called(next, o), db'),
                                         Upserted(hs, envFile.name, o, res))
     ELSE /\ db' = db
          /\ remote' = remote
          /\ Continue(Settle(next, db'), h)
  /\ UNCHANGED <<disk, staging, clock, rand, net, faults, elsewhere, auth, accounts, cipher, srv>>

\* replay of a SYNC operation queued by a push: one unsynced version
ReplayVersionStep ==
  /\ run.phase = "opversions"
  /\ \E o \in NetOutcomes :
       LET version == VersionById(db, Head(run.opv))
           res == PostEnvVersions(remote, VersionRequest(run.cur, version))
           okc == CallSucceeded(o, res)
           r1 == CalledVersion(run, o, res, <<run.cur, version.version_token>>)
           d1 == IF MarkOnAck(okc) THEN markVersionAsSynced(db, version.version_token) ELSE db
           h0 == Answered(hist, <<run.cur, version.version_token>>, o, res)
           h == IF okc /\ Tail(run.opv) = <<>>
                  THEN [h0 EXCEPT !.succeeded = @ \cup {Head(run.ops)}] ELSE h0
       IN /\ remote' = RemoteAfter(o, res)
          /\ IF okc /\ Tail(run.opv) # <<>>
               THEN /\ db' = d1
                    /\ Continue([r1 EXCEPT !.opv = Tail(@)], h)
               ELSE /\ db' = IF okc THEN AfterReplaySuccess(d1, Head(run.ops)) ELSE d1
                    /\ Continue(Settle([r1 EXCEPT !.phase = "replay", !.ops = Tail(@),
                                                  !.opv = <<>>, !.cur = ""], db'), h)
  /\ UNCHANGED <<disk, staging, clock, rand, net, faults, elsewhere, auth, accounts, cipher, srv>>

\* push loops: upsert one file, then read its unsynced versions and rollbacks
PostFileStep ==
  LET
      \* statements.getUnsyncedRollbackHistory (unordered)
      UnsyncedRollbacksOfFile(d, envFileId) ==
        {r \in d.rollback_history : r.env_file_id = envFileId /\ ~r.syncedToServer}
      FileByName(d, fileName) == CHOOSE f \in d.env_files : f.name = fileName
  IN
      /\ run.phase = "file"
      /\ \E o \in NetOutcomes :
           LET envFile == FileByName(db, Head(run.files))
               res == PostEnvFiles(remote, FileRequest(envFile))
               r1 == [Called(run, o) EXCEPT !.files = Tail(@)]
               h == Upserted(hist, envFile.name, o, res)
           IN /\ remote' = RemoteAfter(o, res)
              /\ IF UpsertAcknowledged(o, res)
                   THEN \E vs \in OrderByCreatedAtDesc(UnsyncedVersionsOfFile(db, envFile.id)),
                           rs \in OrderByCreatedAtDesc(UnsyncedRollbacksOfFile(db, envFile.id)) :
                          Continue(Settle([r1 EXCEPT !.phase = "versions", !.cur = envFile.name,
                                             !.vers = Ids(vs), !.rbs = Ids(rs)], db), h)
                   ELSE Continue(AfterFailure(r1, Settle(r1, db)), h)
      /\ UNCHANGED <<db, disk, staging, clock, rand, net, faults, elsewhere, auth, accounts, cipher, srv>>

\* push loops: one unsynced version of the current file
PostVersionStep ==
  /\ run.phase = "versions"
  /\ \E o \in NetOutcomes :
       LET version == VersionById(db, Head(run.vers))
           res == PostEnvVersions(remote, VersionRequest(run.cur, version))
           okc == CallSucceeded(o, res)
           r1 == [CalledVersion(run, o, res, <<run.cur, version.version_token>>)
                    EXCEPT !.vers = Tail(@)]
           h == Answered(hist, <<run.cur, version.version_token>>, o, res)
       IN /\ remote' = RemoteAfter(o, res)
          /\ db' = IF MarkOnAck(okc) THEN markVersionAsSynced(db, version.version_token) ELSE db
          /\ Continue(IF okc THEN Settle(r1, db') ELSE AfterFailure(r1, Settle(r1, db')), h)
  /\ UNCHANGED <<disk, staging, clock, rand, net, faults, elsewhere, auth, accounts, cipher, srv>>

\* push loops: one unsynced rollback record of the current file
PostRollbackStep ==
  LET
      \* statements.markRollbackAsSynced: WHERE id = ?
      markRollbackAsSynced(d, rollbackId) ==
        [d EXCEPT !.rollback_history =
           {IF r.id = rollbackId THEN [r EXCEPT !.syncedToServer = TRUE] ELSE r
              : r \in d.rollback_history}]
      RollbackRequest(fileName, rollback) ==
        [file_name |-> fileName, from_version_token |-> rollback.from_version_token,
         to_version_token |-> rollback.to_version_token, created_at |-> rollback.createdAt]
      RollbackById(d, id) == CHOOSE r \in d.rollback_history : r.id = id
  IN
      /\ run.phase = "rollbacks"
      /\ \E o \in NetOutcomes :
           LET rollback == RollbackById(db, Head(run.rbs))
               res == PostRollbackHistory(remote, RollbackRequest(run.cur, rollback))
               okc == CallSucceeded(o, res)
               r1 == [Called(run, o) EXCEPT !.rbs = Tail(@)]
           IN /\ remote' = RemoteAfter(o, res)
              /\ db' = IF okc THEN markRollbackAsSynced(db, rollback.id) ELSE db
              /\ Continue(IF okc THEN Settle(r1, db') ELSE AfterFailure(r1, Settle(r1, db')), hist)
      /\ UNCHANGED <<disk, staging, clock, rand, net, faults, elsewhere, auth, accounts, cipher, srv>>

----------------------------------------------------------------------------
\* Pending operations enter the queue through dbOps.addPendingOperation
\* (and its wrappers addPendingFileOperation, ...), the store's interface for
\* queuing offline work.

AddPendingOperation ==
  LET
      OperationKinds == {<<"SYNC", "FILE">>, <<"DELETE", "FILE">>, <<"RENAME", "FILE">>}
      addPendingOperation(d, operationType, entityType, entityId, oldName, isPush, now) ==
        [d EXCEPT !.seqOp = d.seqOp + 1,
                  !.pending_operations = d.pending_operations \cup
                    {[id |-> d.seqOp + 1, operation_type |-> operationType,
                      entity_type |-> entityType, entity_id |-> entityId, old_name |-> oldName,
                      isPush |-> isPush, createdAt |-> now, processed |-> FALSE]}]
  IN
      /\ run.kind = "idle"
      /\ db.seqOp < MaxOps
      /\ \E kind \in OperationKinds, f \in db.env_files :
           \* a SYNC operation is queued by a push: operation_data.isPush
           db' = addPendingOperation(db, kind[1], kind[2], f.id, f.name,
                                     kind = <<"SYNC", "FILE">>, clock)
      /\ hist' = Forget(hist)
      /\ UNCHANGED <<disk, staging, clock, rand, remote, run, net, faults, elsewhere, auth, accounts, cipher, srv>>

\* another device of the same user commits a file and syncs it: the
\* server handles POST /env-files and POST /env-versions
OtherClientPush ==
  LET
      \* first token / iv generated on another machine
      ForeignBase == 10 * (MaxVersions + MaxRollbacks + 1)
  IN
      /\ rand.foreign < MaxForeign
      /\ \E f \in {FileOrder[1]}, p \in Plain :
           LET content == encryptContent(p, UserEmail, ForeignSalt, ForeignBase + rand.foreign)
               r1 == PostEnvFiles(remote, [file_name |-> f, content |-> content,
                                           created_at |-> clock, updated_at |-> clock])
               r2 == PostEnvVersions(r1.remote,
                                     [file_name |-> f, version_token |-> ForeignBase + rand.foreign,
                                      content |-> content, created_at |-> clock])
           IN remote' = r2.remote
      /\ rand' = [rand EXCEPT !.foreign = @ + 1]
      /\ hist' = Forget(hist)
      /\ UNCHANGED <<db, disk, staging, clock, run, net, faults, elsewhere, auth, accounts, cipher, srv>>

----------------------------------------------------------------------------
\* Pull.

\* GET /projects/:name/files: the files of the project, each with the
\* array of its versions. The server stores neither a current version
\* nor a parent for what it is sent, so the payload carries none.
GetProjectFiles(rm) ==
  LET
      \* rows of S in the order of their version tokens
      OrderByToken(S) ==
        CHOOSE s \in Perms(S) :
          \A i, j \in 1..Cardinality(S) : i < j => s[i].version_token < s[j].version_token
  IN
      IF ProjectName \notin rm.projects THEN [status |-> 404, files |-> {}]
      ELSE [status |-> 200,
            files |-> {[name |-> f.name, content |-> f.content, updated_at |-> f.updated_at,
                        current_version_id |-> NULL,
                        versions |-> LET rows == OrderByToken({v \in rm.env_versions :
                                                                v.env_file_id = f.id})
                                     IN [i \in 1..Len(rows) |->
                                           [version_token |-> rows[i].version_token,
                                            content |-> rows[i].content,
                                            parent_version_id |-> NULL]]]
                       : f \in rm.env_files}]

\* handlePull: the decision for one cloud file
shouldPull(fileExistsOnDisk, localFile, cloudFile) ==
  LET
      \* cloudFile.updated_at: a property of the payload
      CloudUpdatedAt(cloudFile_) == [defined |-> TRUE, value |-> cloudFile_.updated_at]
      \* localFile.updated_at: the rows of env_files carry the column updatedAt,
      \* so the property updated_at is undefined
      LocalUpdatedAt(localFile_) == [defined |-> FALSE, value |-> localFile_.updatedAt]
      \* new Date(x): Invalid Date when x is undefined
      NewDate(x) == [valid |-> x.defined, time |-> x.value]
      \* a > b on Dates: false when either is Invalid Date (NaN)
      DateGreater(a, b) == a.valid /\ b.valid /\ a.time > b.time
  IN
      IF ~fileExistsOnDisk \/ localFile = {} THEN TRUE
      ELSE DateGreater(NewDate(CloudUpdatedAt(cloudFile)),
                       NewDate(LocalUpdatedAt(CHOOSE f \in localFile : TRUE)))

\* the version inserts of restoreFileWithVersions
RECURSIVE insertVersions(_, _, _, _)
insertVersions(d, fileId, versions, now) ==
  IF versions = <<>> THEN d
  ELSE insertVersions(insertEnvVersion(d, fileId, Head(versions).version_token,
                                       Head(versions).content,
                                       Head(versions).parent_version_id, now),
                      fileId, Tail(versions), now)

\* dbOps.restoreFileWithVersions (one transaction)
restoreFileWithVersions(d, fileName, fileData, versions, now) ==
  LET existingFile == getEnvFileByProjectAndName(d, fileName)
      fileId == IF existingFile # {} THEN (CHOOSE f \in existingFile : TRUE).id
                ELSE d.seqFile + 1
      d1 == IF existingFile # {} THEN updateEnvFile(d, fileId, fileData.content, now)
            ELSE insertEnvFile(d, fileName, fileData.content, now)
      d2 == [d1 EXCEPT !.env_versions = {v \in @ : v.env_file_id # fileId}]
      d3 == insertVersions(d2, fileId, versions, now)
  IN IF fileData.current_version_id # NULL
       THEN [d3 EXCEPT !.env_files =
               {IF f.id = fileId
                  THEN [f EXCEPT !.current_version_id = fileData.current_version_id]
                  ELSE f : f \in d3.env_files}]
       ELSE d3

\* handlePull: the body of the loop for one cloud file
pullOne(st, cloudFile, now, fault) ==
  LET name == cloudFile.name
      localFile == getEnvFileByProjectAndName(st.db, name)
      plain == decryptContent(cloudFile.content, UserEmail, UserSalt)
  IN IF ~shouldPull(st.disk[name] # Absent, localFile, cloudFile)
       THEN [st EXCEPT !.skipped = @ \cup {name}]
     ELSE IF plain = DecryptError \/ fault = "write" THEN st
     ELSE IF fault = "restore" THEN [st EXCEPT !.disk[name] = Absent]
     ELSE [db |-> restoreFileWithVersions(st.db, name,
                     [content |-> cloudFile.content,
                      current_version_id |-> cloudFile.current_version_id],
                     cloudFile.versions, now),
           disk |-> [st.disk EXCEPT ![name] = plain],
           pulled |-> st.pulled \cup {name}, skipped |-> st.skipped]

\* the loop of handlePull over the cloud files, in the order of FileOrder
RECURSIVE pullLoop(_, _, _, _, _)
pullLoop(st, names, cloudFiles, now, faultAt) ==
  IF names = <<>> THEN st
  ELSE LET here == {c \in cloudFiles : c.name = Head(names)}
           st1 == IF here = {} THEN st
                  ELSE pullOne(st, CHOOSE c \in here : TRUE, now,
                               IF faultAt.name = Head(names) THEN faultAt.fault ELSE "no")
       IN pullLoop(st1, Tail(names), cloudFiles, now, faultAt)

HandlePull ==
  LET
      PullFaults == {"no", "write", "restore"}
  IN
      /\ run.kind = "idle"
      /\ \E o \in NetOutcomes, fname \in FileNames, fault \in PullFaults :
           LET res == GetProjectFiles(remote)
               cloudNames == {c.name : c \in res.files}
               failed == IF fault = "no" THEN 0 ELSE 1
               st == IF o = "ok" /\ res.status = 200
                       THEN pullLoop([db |-> db, disk |-> disk, pulled |-> {}, skipped |-> {}],
                                     FileOrder, res.files, clock,
                                     [name |-> fname, fault |-> fault])
                       ELSE [db |-> db, disk |-> disk, pulled |-> {}, skipped |-> {}]
           IN /\ fault = "no" => fname = FileOrder[1]
              /\ fault # "no" => o = "ok" /\ fname \in cloudNames
              /\ faults + failed <= MaxFaults
              /\ db.seqVersion + Cardinality(remote.env_versions) <= MaxVersions + MaxForeign
              /\ faults' = faults + failed
              /\ db' = st.db
              /\ disk' = st.disk
              /\ hist' = [hist EXCEPT
                    !.last = [NoLast EXCEPT !.op = "pull", !.ok = (o = "ok" /\ res.status = 200),
                                !.pulled = st.pulled, !.skipped = st.skipped,
                                !.cloudBefore = res.files, !.dbBefore = db.env_files,
                                !.diskBefore = disk,
                                !.rbBefore = {r.id : r \in db.rollback_history},
                                !.versBefore = {v.id : v \in db.env_versions}],
                    !.pure = [f \in FileNames |-> IF f \in st.pulled THEN -1 ELSE @[f]]]
      /\ UNCHANGED <<staging, clock, rand, remote, run, net, elsewhere, auth, accounts, cipher, srv>>

----------------------------------------------------------------------------
\* Rename and remove.

\* the request of deleteFileFromCloud for file n
DeleteFileRequest(n) == [file_name |-> n]

\* the request of deleteProjectFromCloud
DeleteProjectRequest == [project_name |-> ProjectName]

\* dbOps.deleteEnvFile: one transaction of three statements; a statement
\* that throws rolls the transaction back; the result of the last statement
\* decides what is reported once the transaction has committed
deleteEnvFile(d, envFileId, userId, throws) ==
  LET
      \* statements.deleteRollbackHistoryByFileId
      deleteRollbackHistoryByFileId(d_, envFileId_) ==
        [d_ EXCEPT !.rollback_history = {r \in @ : r.env_file_id # envFileId_}]
      \* statements.deleteEnvVersionsByFileId
      deleteEnvVersionsByFileId(d_, envFileId_) ==
        [d_ EXCEPT !.env_versions = {v \in @ : v.env_file_id # envFileId_}]
      \* statements.deleteEnvFile: the rows it deletes (the file, if its project
      \* belongs to the user)
      deleteEnvFileRows(d_, envFileId_, userId_) ==
        {f \in d_.env_files :
           /\ f.id = envFileId_
           /\ \E p \in d_.projects : p.name = f.project_id /\ p.user_id = userId_}
  IN
      IF throws THEN [success |-> FALSE, db |-> d]
      ELSE LET d1 == deleteRollbackHistoryByFileId(d, envFileId)
               d2 == deleteEnvVersionsByFileId(d1, envFileId)
               rows == deleteEnvFileRows(d2, envFileId, userId)
           IN [success |-> Cardinality(rows) > 0,
               db |-> [d2 EXCEPT !.env_files = @ \ rows]]

\* dbOps.deleteProject: one transaction: the rollbacks and versions of every
\* file of the project, the files, then the project row of the user
deleteProject(d, projectName, userId, throws) ==
  LET
      \* statements.deleteProject: the rows it deletes
      deleteProjectRows(d_, projectName_, userId_) ==
        {p \in d_.projects : p.name = projectName_ /\ p.user_id = userId_}
  IN
      IF throws THEN [success |-> FALSE, db |-> d]
      ELSE LET envFiles == IF \E p \in d.projects : p.name = projectName
                             THEN d.env_files ELSE {}
               d1 == [d EXCEPT
                        !.rollback_history =
                           {r \in @ : \A f \in envFiles : r.env_file_id # f.id},
                        !.env_versions =
                           {v \in @ : \A f \in envFiles : v.env_file_id # f.id}]
               d2 == [d1 EXCEPT !.env_files = @ \ envFiles]
               rows == deleteProjectRows(d2, projectName, userId)
           IN [success |-> Cardinality(rows) > 0,
               db |-> [d2 EXCEPT !.projects = @ \ rows]]

\* what a rename or remove command leaves in the history
Removed(op, entity, ok) ==
  [NoLast EXCEPT !.op = op, !.entity = entity, !.ok = ok,
                 !.opsBefore = {q.id : q \in db.pending_operations},
                 !.storeBefore = db]

\* the same, with the outcome o of the remote call of the command ("none":
\* no call was made)
Managed(op, entity, ok, o, res) ==
  [Removed(op, entity, ok) EXCEPT
                 !.calls = IF o = "none" THEN 0 ELSE 1,
                 !.reached = IF o \in {"none", "refused"} THEN 0 ELSE 1,
                 !.failed = o # "none" /\ ~CallSucceeded(o, res)]

\* handleRename (commands/project.js), `evm rename <project> <new file name>`:
\* the first file getEnvFilesByProject returns (no ORDER BY: any file) is
\* renamed in the local store, then PUT /env-files/rename is sent
HandleRenameFile ==
  LET
      \* dbOps.renameEnvFile: UPDATE env_files SET name = ? WHERE id = ?; the
      \* UNIQUE(project_id, name) constraint makes the statement throw
      renameEnvFile(d, envFileId, newName) ==
        IF \E f \in d.env_files : f.id # envFileId /\ f.name = newName
          THEN [success |-> FALSE, db |-> d]
          ELSE [success |-> getEnvFileById(d, envFileId) # {},
                db |-> [d EXCEPT !.env_files =
                          {IF f.id = envFileId THEN [f EXCEPT !.name = newName] ELSE f : f \in @}]]
  IN
      /\ run.kind = "idle"
      /\ db.projects # {}
      /\ \E f \in db.env_files, newFileName \in FileNames, o \in NetOutcomes :
           LET localResult == renameEnvFile(db, f.id, newFileName)
               res == PutRename(remote, [old_name |-> f.name, new_name |-> newFileName])
           IN IF ~localResult.success
                THEN /\ hist' = [hist EXCEPT
                           !.last = Managed("rename", "FILE", FALSE, "none", res)]
                     /\ UNCHANGED <<db, remote>>
                ELSE /\ db' = localResult.db
                     /\ remote' = RemoteAfter(o, res)
                     /\ hist' = [hist EXCEPT
                           !.last = Managed("rename", "FILE", TRUE, o, res),
                           !.pure = [@ EXCEPT ![f.name] = -1, ![newFileName] = -1]]
      /\ UNCHANGED <<disk, staging, clock, rand, run, net, faults, elsewhere, auth, accounts, cipher, srv>>

\* handleRemove (commands/project.js), `evm rm <project> <file> [--force]`:
\* the file and its history leave the local store; with --force
\* DELETE /env-files is sent and its failure is only printed
HandleRemoveFile ==
  /\ run.kind = "idle"
  /\ \E p \in db.projects : p.user_id = Owner
  /\ \E fileName \in FileNames, forceFlag \in BOOLEAN, o \in NetOutcomes :
       LET envFileResult == getEnvFileByProjectAndName(db, fileName)
           envFile == CHOOSE f \in envFileResult : TRUE
           deleteResult == deleteEnvFile(db, envFile.id, Owner, FALSE)
           res == DeleteEnvFiles(remote, DeleteFileRequest(fileName))
           sent == IF forceFlag THEN o ELSE "none"
       IN /\ envFileResult # {}
          /\ db' = deleteResult.db
          /\ remote' = IF forceFlag THEN RemoteAfter(o, res) ELSE remote
          /\ hist' = [hist EXCEPT
                !.last = Managed("remove", "FILE", deleteResult.success, sent, res),
                !.pure = [@ EXCEPT ![fileName] = -1]]
  /\ UNCHANGED <<disk, staging, clock, rand, run, net, faults, elsewhere, auth, accounts, cipher, srv>>

\* handleRemove, `evm rm <project> [--force]`: the project, its files and
\* their history leave the local store; with --force DELETE /projects is
\* sent and its failure is only printed
HandleRemoveProject ==
  /\ run.kind = "idle"
  /\ \E p \in db.projects : p.user_id = Owner
  /\ \E forceFlag \in BOOLEAN, o \in NetOutcomes :
       LET deleteResult == deleteProject(db, ProjectName, Owner, FALSE)
           res == DeleteProjects(remote, DeleteProjectRequest)
           sent == IF forceFlag THEN o ELSE "none"
       IN /\ db' = deleteResult.db
          /\ remote' = IF forceFlag THEN RemoteAfter(o, res) ELSE remote
          /\ hist' = [hist EXCEPT
                !.last = Managed("remove", "PROJECT", deleteResult.success, sent, res),
                !.pure = [f \in FileNames |-> -1]]
  /\ UNCHANGED <<disk, staging, clock, rand, run, net, faults, elsewhere, auth, accounts, cipher, srv>>

\* dbOps.deleteEnvFile called on behalf of a user for a file of the store or
\* for an id that no file has; one of its statements may throw
DeleteEnvFileOp ==
  /\ run.kind = "idle"
  /\ \E envFileId \in 1..(db.seqFile + 1), userId \in UserIds, throws \in BOOLEAN :
       LET result == deleteEnvFile(db, envFileId, userId, throws) IN
       /\ throws => faults < MaxFaults
       /\ faults' = IF throws THEN faults + 1 ELSE faults
       /\ db' = result.db
       /\ hist' = [hist EXCEPT
             !.last = Removed("deleteEnvFile", "FILE", result.success),
             !.pure = [n \in FileNames |->
                         IF \E f \in getEnvFileById(db, envFileId) : f.name = n
                           THEN -1 ELSE @[n]]]
  /\ UNCHANGED <<disk, staging, clock, rand, remote, run, net, elsewhere, auth, accounts, cipher, srv>>

\* dbOps.deleteProject called for the project on behalf of a user; one of
\* its statements may throw
DeleteProjectOp ==
  /\ run.kind = "idle"
  /\ db.projects # {}
  /\ \E userId \in UserIds, throws \in BOOLEAN :
       LET result == deleteProject(db, ProjectName, userId, throws) IN
       /\ throws => faults < MaxFaults
       /\ faults' = IF throws THEN faults + 1 ELSE faults
       /\ db' = result.db
       /\ hist' = [hist EXCEPT
             !.last = Removed("deleteProject", "PROJECT", result.success),
             !.pure = [f \in FileNames |-> -1]]
  /\ UNCHANGED <<disk, staging, clock, rand, remote, run, net, elsewhere, auth, accounts, cipher, srv>>

\* the CLI process is terminated while a command awaits the network
Terminate ==
  /\ run.kind # "idle"
  /\ run' = Idle
  /\ hist' = EndRun(Forget(hist))
  /\ UNCHANGED <<db, disk, staging, clock, rand, remote, net, faults, elsewhere, auth, accounts, cipher, srv>>

SpecLocal ==
  /\ InitLocal
  /\ [][
       \/ Tick
       \/ EditFile
       \/ AddEnvFiles
       \/ PushStagedFiles
       \/ HandleRevert
       \/ HandleRevertStaged
       \/ HandleSync
       \/ PostFileStep
       \/ Terminate
     ]_vars

\* the same commands, with one failure of a local-store statement or of a
\* disk write injected somewhere
InitFault ==
  /\ db = EmptyDb
  /\ disk = [f \in FileNames |-> Absent]
  /\ staging = NoStaging
  /\ clock = 0
  /\ rand = [token |-> 1, iv |-> 1, foreign |-> 0]
  /\ remote = EmptyRemote
  /\ run = Idle
  /\ net = "down"
  /\ faults = 0
  /\ hist = InitHist
  /\ elsewhere = NoStagingFiles
  /\ auth = LoggedIn
  /\ accounts = Registered
  /\ cipher = NoCipher
  /\ srv = NoRequests

SpecFault ==
  /\ InitFault
  /\ [][
       \/ Tick
       \/ EditFile
       \/ AddEnvFiles
       \/ PushStagedFiles
       \/ HandleRevert
       \/ HandleRevertStaged
       \/ HandleSync
       \/ PostFileStep
       \/ Terminate
     ]_vars

\* the server is reachable at first; no local-store failure is injected
InitOnline ==
  /\ db = EmptyDb
  /\ disk = [f \in FileNames |-> Absent]
  /\ staging = NoStaging
  /\ clock = 0
  /\ rand = [token |-> 1, iv |-> 1, foreign |-> 0]
  /\ remote = EmptyRemote
  /\ run = Idle
  /\ net = "up"
  /\ faults = MaxFaults
  /\ hist = InitHist
  /\ elsewhere = NoStagingFiles
  /\ auth = LoggedIn
  /\ accounts = Registered
  /\ cipher = NoCipher
  /\ srv = NoRequests

\* commits, rollbacks, queued operations and sync runs over a network that
\* comes and goes
SpecSync ==
  /\ InitOnline
  /\ [][
       \/ EditFirstFile
       \/ AddEnvFiles
       \/ PushStagedFiles
       \/ AddPendingOperation
       \/ HandleSync
       \/ ReplayOpStep
       \/ ReplayVersionStep
       \/ PostFileStep
       \/ PostVersionStep
       \/ Terminate
     ]_vars

\* most file ids the store hands out before `evm rm` is no longer run
MaxFileIds == 2

\* `evm rm <project> <file>` while file ids are left within the bound
RemoveFileWithinBound ==
  /\ db.seqFile < MaxFileIds
  /\ HandleRemoveFile

\* commits and pushes of this device, a file removed from the local store,
\* pushes of another device, and pulls
SpecPull ==
  /\ InitOnline
  /\ [][
       \/ Tick
       \/ EditFirstFile
       \/ AddEnvFiles
       \/ PushStagedFiles
       \/ PostFileStep
       \/ PostVersionStep
       \/ RemoveFileWithinBound
       \/ OtherClientPush
       \/ HandlePull
       \/ Terminate
     ]_vars

\* the server is reachable and one local failure may be injected
InitOnlineFault ==
  /\ db = EmptyDb
  /\ disk = [f \in FileNames |-> Absent]
  /\ staging = NoStaging
  /\ clock = 0
  /\ rand = [token |-> 1, iv |-> 1, foreign |-> 0]
  /\ remote = EmptyRemote
  /\ run = Idle
  /\ net = "up"
  /\ faults = 0
  /\ hist = InitHist
  /\ elsewhere = NoStagingFiles
  /\ auth = LoggedIn
  /\ accounts = Registered
  /\ cipher = NoCipher
  /\ srv = NoRequests

\* commits and pushes of this device, a file removed from the local store,
\* pushes of another device, and pulls during which a write to the project
\* directory or to the store may fail
SpecPullFault ==
  /\ InitOnlineFault
  /\ [][
       \/ EditFirstFile
       \/ AddEnvFiles
       \/ PushStagedFiles
       \/ PostFileStep
       \/ PostVersionStep
       \/ RemoveFileWithinBound
       \/ OtherClientPush
       \/ HandlePull
       \/ Terminate
     ]_vars

\* the server is reachable, the session stays valid and no answer is lost
InitSteady ==
  /\ db = EmptyDb
  /\ disk = [f \in FileNames |-> Absent]
  /\ staging = NoStaging
  /\ clock = 0
  /\ rand = [token |-> 1, iv |-> 1, foreign |-> 0]
  /\ remote = EmptyRemote
  /\ run = Idle
  /\ net = "steady"
  /\ faults = MaxFaults
  /\ hist = InitHist
  /\ elsewhere = NoStagingFiles
  /\ auth = LoggedIn
  /\ accounts = Registered
  /\ cipher = NoCipher
  /\ srv = NoRequests

\* commits, queued operations and sync runs against a server that answers
\* every call: the user runs `evm sync` again and again, and a command that
\* has started runs to its end
SpecReplay ==
  /\ InitSteady
  /\ [][
       \/ EditFirstFile
       \/ AddEnvFiles
       \/ PushStagedFiles
       \/ AddPendingOperation
       \/ HandleSync
       \/ ReplayOpStep
       \/ PostFileStep
       \/ PostVersionStep
     ]_vars
  /\ WF_vars(HandleSync)
  /\ WF_vars(ReplayOpStep)
  /\ WF_vars(PostFileStep)
  /\ WF_vars(PostVersionStep)

\* requests of two users that the server handles side by side
SpecServer ==
  /\ InitOnline
  /\ [][
       \/ Send
       \/ PostEnvFilesAwait
       \/ PostEnvVersionsAwait
       \/ PostRollbackHistoryAwait
       \/ DeleteEnvFilesAwait
       \/ DeleteProjectsAwait
     ]_vars

\* commits, rollbacks and pushes of this device, a file that disappears from
\* the project directory, and pulls that restore it
SpecRestore ==
  /\ InitOnline
  /\ [][
       \/ EditFirstFile
       \/ RemoveFile
       \/ AddEnvFiles
       \/ PushStagedFiles
       \/ HandleRevert
       \/ HandleSync
       \/ PostFileStep
       \/ PostVersionStep
       \/ PostRollbackStep
       \/ HandlePull
       \/ Terminate
     ]_vars

\* commits, rollbacks, pushes and sync runs of one file against a server
\* that answers, answers too late, or rejects the token
SpecPush ==
  /\ InitOnline
  /\ [][
       \/ EditFirstFile
       \/ AddEnvFiles
       \/ PushStagedFiles
       \/ HandleRevert
       \/ HandleSync
       \/ PostFileStep
       \/ PostVersionStep
       \/ PostRollbackStep
       \/ Terminate
     ]_vars

\* commits, pushes and sync runs of a project with two files
SpecFiles ==
  /\ InitOnline
  /\ [][
       \/ EditFile
       \/ AddEnvFiles
       \/ PushStagedFiles
       \/ HandleSync
       \/ PostFileStep
       \/ PostVersionStep
       \/ Terminate
     ]_vars

\* commits, rollbacks, renames and removals while the server is down, with
\* one failure of a local-store statement injected somewhere
SpecManage ==
  /\ InitFault
  /\ [][
       \/ EditFirstFile
       \/ AddEnvFiles
       \/ PushStagedFiles
       \/ HandleRevert
       \/ PostFileStep
       \/ HandleRenameFile
       \/ HandleRemoveFile
       \/ HandleRemoveProject
       \/ DeleteEnvFileOp
       \/ DeleteProjectOp
       \/ Terminate
     ]_vars

\* commits, pushes and reverts of one file against a server that answers
SpecHistory ==
  /\ InitOnline
  /\ [][
       \/ EditFirstFile
       \/ AddEnvFiles
       \/ PushStagedFiles
       \/ PostFileStep
       \/ PostVersionStep
       \/ HandleRevert
       \/ Terminate
     ]_vars

\* a fresh installation: no store file on any device, no account on the
\* server, nobody logged in
InitFresh ==
  /\ db = [EmptyDb EXCEPT !.projects = {}]
  /\ disk = [f \in FileNames |-> Absent]
  /\ staging = NoStaging
  /\ clock = 0
  /\ rand = [token |-> 1, iv |-> 1, foreign |-> 0]
  /\ remote = EmptyRemote
  /\ run = Idle
  /\ net \in {"up", "down"}
  /\ faults = MaxFaults
  /\ hist = InitHist
  /\ elsewhere = NoStagingFiles
  /\ auth = LoggedOut
  /\ accounts = NoAccounts
  /\ cipher = NoCipher
  /\ srv = NoRequests

\* stores left by earlier releases, startups, registrations, logins, logouts
\* and remote calls while tokens expire
SpecAuth ==
  /\ InitFresh
  /\ [][
       \/ EarlierRelease
       \/ Startup
       \/ Register
       \/ Login
       \/ Tick
       \/ TokenExpires
       \/ ServerRestart
       \/ Logout
       \/ CloudCall
     ]_vars

\* a content about to be encrypted, the store and the remote being as
\* after the registration
InitCipher ==
  LET
      \* a file content about to be encrypted for a user
      CipherInputs ==
        {[NoCipher EXCEPT !.step = "read", !.content = content, !.userEmail = userEmail,
                          !.userSalt = userSalt, !.iv = iv] :
           content \in Plain, userEmail \in Emails, userSalt \in Salts, iv \in 1..MaxIvs}
  IN
      /\ db = EmptyDb
      /\ disk = [f \in FileNames |-> Absent]
      /\ staging = NoStaging
      /\ clock = 0
      /\ rand = [token |-> 1, iv |-> 1, foreign |-> 0]
      /\ remote = EmptyRemote
      /\ run = Idle
      /\ net = "up"
      /\ faults = MaxFaults
      /\ hist = InitHist
      /\ elsewhere = NoStagingFiles
      /\ auth = LoggedIn
      /\ accounts = Registered
      /\ cipher \in CipherInputs
      /\ srv = NoRequests

\* a content is encrypted, then decrypted by some user
SpecCipher ==
  /\ InitCipher
  /\ [][
       \/ Encrypt
       \/ Decrypt
     ]_vars

\* staging and committing in the user's other project directories
SpecStaging ==
  /\ InitLocal
  /\ [][
       \/ AddEnvFilesIn
       \/ PushStagedFilesIn
     ]_vars

\* the store of a machine two users work on: the other user has registered,
\* committed one file in a project of their own and logged out; the session's
\* user has then logged in and run `evm init` in this directory
InitShared ==
  /\ db = [EmptyDb EXCEPT
             !.projects = @ \cup {[name |-> "theirs", user_id |-> "other"]},
             !.env_files = {[id |-> 1, project_id |-> "theirs", name |-> FileOrder[2],
                             content |-> encryptContent("p1", "bob", "s_bob", 1),
                             current_version_id |-> 1, createdAt |-> 0, updatedAt |-> 0]},
             !.env_versions = {[id |-> 1, env_file_id |-> 1, version_token |-> 1,
                                content |-> encryptContent("p1", "bob", "s_bob", 1),
                                parent_version_id |-> NULL, syncedToServer |-> FALSE,
                                createdAt |-> 0]},
             !.seqFile = 1, !.seqVersion = 1]
  /\ disk = [f \in FileNames |-> Absent]
  /\ staging = NoStaging
  /\ clock = 0
  /\ rand = [token |-> 2, iv |-> 2, foreign |-> 0]
  /\ remote = EmptyRemote
  /\ run = Idle
  /\ net = "down"
  /\ faults = 0
  /\ hist = InitHist
  /\ elsewhere = NoStagingFiles
  /\ auth = LoggedIn
  /\ accounts = Registered
  /\ cipher = NoCipher
  /\ srv = NoRequests

\* commits and reverts on a machine whose store holds another user's project
SpecShared ==
  /\ InitShared
  /\ [][
       \/ Tick
       \/ EditFirstFile
       \/ AddEnvFiles
       \/ PushStagedFiles
       \/ HandleRevert
       \/ PostFileStep
       \/ Terminate
     ]_vars

\* commits and reverts of one file while the server is down
SpecRevert ==
  /\ InitLocal
  /\ [][
       \/ Tick
       \/ EditFirstFile
       \/ AddEnvFiles
       \/ PushStagedFiles
       \/ HandleRevert
       \/ PostFileStep
       \/ Terminate
     ]_vars

\* commits and pushes of one file, and removals that reach the server
SpecRemove ==
  /\ InitOnline
  /\ [][
       \/ EditFirstFile
       \/ AddEnvFiles
       \/ PushStagedFiles
       \/ PostFileStep
       \/ PostVersionStep
       \/ HandleRemoveFile
       \/ HandleRemoveProject
       \/ Terminate
     ]_vars

----------------------------------------------------------------------------
\* Properties of the version chain.

\* C1: a file that has only been written by N successful commits has a
\* chain of exactly N versions from its head down to a version without
\* parent (every commit links its version to the previous head).
C1_CommitChain ==
  LET
      \* the row of a version id, as a set (empty: no such row)
      VersionRows(d, id) == {v \in d.env_versions : v.id = id}
      \* number of versions visited walking parentVersionId from version id
      RECURSIVE ChainLength(_, _, _)
      ChainLength(d, id, fuel) ==
        IF id = NULL \/ fuel = 0 \/ VersionRows(d, id) = {} THEN 0
        ELSE 1 + ChainLength(d, (CHOOSE v \in VersionRows(d, id) : TRUE).parent_version_id, fuel - 1)
  IN
      \A f \in db.env_files :
        hist.pure[f.name] > 0 =>
          ChainLength(db, f.current_version_id, MaxVersions + 1) = hist.pure[f.name]

\* C2: after a successful rollback of a file to T the new head carries T's
\* content and its parent is the version that was head just before the
\* rollback, not T.
C2_RollbackHead ==
  LET
      \* the rollback that has just succeeded: its file, target and new rows
      LastRevertDone == hist.last.op = "revert" /\ hist.last.ok
      LastFile == CHOOSE f \in db.env_files : f.id = hist.last.file
      LastTarget == CHOOSE v \in db.env_versions : v.id = hist.last.target
      LastHead == CHOOSE v \in db.env_versions : v.id = LastFile.current_version_id
  IN
      LastRevertDone =>
        /\ LastHead.id = hist.last.newId
        /\ LastHead.content = LastTarget.content
        /\ LastHead.parent_version_id = hist.last.prevHead

\* C10: a successful revert to token T while the head has token H leaves
\* exactly one new rollback record, with from = H and to = T.
C10_RollbackRecord ==
  LET
      \* the row of a version id, as a set (empty: no such row)
      VersionRows(d, id) == {v \in d.env_versions : v.id = id}
      \* the rollback that has just succeeded: its file, target and new rows
      LastRevertDone == hist.last.op = "revert" /\ hist.last.ok
      LastTarget == CHOOSE v \in db.env_versions : v.id = hist.last.target
      NewRollbacks == {r \in db.rollback_history : r.id \notin hist.last.rbBefore}
  IN
      LastRevertDone =>
        /\ Cardinality(NewRollbacks) = 1
        /\ \A r \in NewRollbacks :
             /\ r.to_version_token = LastTarget.version_token
             /\ \E h \in VersionRows(db, hist.last.prevHead) :
                  r.from_version_token = h.version_token

\* C3: the content of every tracked file equals the content of the version
\* its currentVersionId references, in every state commits and rollbacks
\* can leave behind, failed ones included.
C3_HeadContent ==
  LET
      \* the row of a version id, as a set (empty: no such row)
      VersionRows(d, id) == {v \in d.env_versions : v.id = id}
  IN
      \A f \in db.env_files :
        /\ \E v \in db.env_versions : v.id = f.current_version_id
        /\ \A v \in VersionRows(db, f.current_version_id) : v.content = f.content

\* C4: a pull that finds a remote file present on disk and in the local
\* store overwrites it if and only if the remote updatedAt is greater than
\* the local updatedAt.
C4_PullNewerWins ==
  hist.last.op = "pull" /\ hist.last.ok =>
    \A c \in hist.last.cloudBefore, f \in hist.last.dbBefore :
      f.name = c.name /\ hist.last.diskBefore[c.name] # Absent =>
        (c.name \in hist.last.pulled <=> c.updated_at > f.updatedAt)

----------------------------------------------------------------------------
\* Properties of the sync reconciler.

\* C5: every local version flagged syncedToServer has been acknowledged by
\* the remote for its file and token, in every state, those left by failed
\* and terminated runs included.
C5_SyncedImpliesAcked ==
  LET
      \* name of the file a local version belongs to
      FileNameOf(v) == (CHOOSE f \in db.env_files : f.id = v.env_file_id).name
  IN
      \A v \in db.env_versions :
        v.syncedToServer => <<FileNameOf(v), v.version_token>> \in hist.acked

\* a run has ended with one version acknowledged and flagged and another one
\* neither acknowledged nor flagged
C5_Witness ==
  LET
      \* name of the file a local version belongs to
      FileNameOf(v) == (CHOOSE f \in db.env_files : f.id = v.env_file_id).name
  IN
      /\ run.kind = "idle"
      /\ \E v, w \in db.env_versions :
           /\ v.syncedToServer
           /\ <<FileNameOf(v), v.version_token>> \in hist.acked
           /\ ~w.syncedToServer
           /\ <<FileNameOf(w), w.version_token>> \notin hist.acked

\* C6: during a replay, a pending operation has left the queue if and only
\* if its remote calls succeeded; after any failure, an authentication
\* failure included, it is still queued.
C6_ProcessedIffSucceeded ==
  run.kind = "sync" =>
    \A id \in hist.queued :
      OperationById(db, id).processed <=> id \in hist.succeeded

\* one run has replayed an operation with success and another one without
C6_Witness ==
  /\ run.kind = "sync"
  /\ \E a, b \in Range(hist.attempted) :
       /\ a \in hist.succeeded /\ OperationById(db, a).processed
       /\ b \notin hist.succeeded /\ ~OperationById(db, b).processed

C8_OfflineSyncQueues ==
  hist.last.op \in {"sync", "push"} /\ hist.last.calls = 1 /\ hist.last.reached = 0 =>
    LET new == {o \in db.pending_operations : o.id \notin hist.last.opsBefore} IN
    /\ Cardinality(new) = 1
    /\ \A o \in new : o.operation_type = "SYNC"

\* C9: the remote holds at most one row for a file and token however often
\* the version is pushed, and pushing a version it already holds is
\* acknowledged with success and changes nothing.
C9_PushTwiceOneRow ==
  LET
      \* name of the file a local version belongs to
      FileNameOf(v) == (CHOOSE f \in db.env_files : f.id = v.env_file_id).name
      \* remote rows of a file and token
      RemoteRows(fileName, versionToken) ==
        {v \in remote.env_versions : v.env_file_id = fileName /\ v.version_token = versionToken}
  IN
      /\ \A v \in remote.env_versions : Cardinality(RemoteRows(v.env_file_id, v.version_token)) = 1
      /\ \A v \in db.env_versions :
           RemoteRows(FileNameOf(v), v.version_token) # {} =>
             LET res == PostEnvVersions(remote, VersionRequest(FileNameOf(v), v)) IN
             res.status = 200 /\ res.remote = remote

\* a push of a version the remote held already has just been acknowledged,
\* and the remote holds one row of it
C9_Witness ==
  LET
      \* remote rows of a file and token
      RemoteRows(fileName, versionToken) ==
        {v \in remote.env_versions : v.env_file_id = fileName /\ v.version_token = versionToken}
  IN
      \E p \in run.again \cap hist.acked : Cardinality(RemoteRows(p[1], p[2])) = 1

----------------------------------------------------------------------------
\* Properties of pull.

\* C11: a pull that meets a remote file present on disk and absent from the
\* local store creates the record in the store and leaves the bytes of the
\* file on disk as they were.
C11_PullAdoptsDiskFile ==
  LET
      \* remote files the last pull found on disk but not in the local store
      AdoptedByLastPull ==
        {c \in hist.last.cloudBefore :
           /\ hist.last.diskBefore[c.name] # Absent
           /\ \A f \in hist.last.dbBefore : f.name # c.name}
  IN
      hist.last.op = "pull" /\ hist.last.ok =>
        \A c \in AdoptedByLastPull :
          /\ \E f \in db.env_files : f.name = c.name
          /\ disk[c.name] = hist.last.diskBefore[c.name]

\* C12: after a file has been pulled, the versions and rollback records the
\* local store holds for it are those of the remote payload: every remote
\* version is there, and no version and no rollback record that was there
\* before the pull is left.
C12_PullReplacesHistory ==
  LET
      \* the local row of the file named n
      LocalFileNamed(n) == CHOOSE f \in db.env_files : f.name = n
  IN
      hist.last.op = "pull" /\ hist.last.ok =>
        \A c \in hist.last.cloudBefore :
          c.name \in hist.last.pulled =>
            LET f == LocalFileNamed(c.name) IN
            /\ {v.version_token : v \in VersionsOfFile(db, f.id)}
                 = {c.versions[i].version_token : i \in 1..Len(c.versions)}
            /\ \A v \in VersionsOfFile(db, f.id) : v.id \notin hist.last.versBefore
            /\ \A r \in db.rollback_history :
                 r.env_file_id = f.id => r.id \notin hist.last.rbBefore

----------------------------------------------------------------------------
\* Properties of the push loops.

\* C13: the unsynced versions of a file are sent in the order of their
\* creation: no version is sent before an older unsynced version of the file.
C13_VersionsOldestFirst ==
  LET
      \* the versions the run still has to send for its current file, in the order
      \* in which it sends them (the first is sent by the next call)
      VersionsToSend ==
        IF run.phase = "versions" THEN run.vers
        ELSE IF run.phase = "opversions" THEN run.opv
        ELSE <<>>
  IN
      \A i, j \in 1..Len(VersionsToSend) :
        i < j => VersionById(db, VersionsToSend[i]).createdAt
                   <= VersionById(db, VersionsToSend[j]).createdAt

\* C14: a run sends a version or a rollback record of a file only after the
\* remote has acknowledged the upsert of that file in the same run; after an
\* upsert that failed, nothing of the file is sent.
C14_FileBeforeHistory ==
  LET
      \* the versions the run still has to send for its current file, in the order
      \* in which it sends them (the first is sent by the next call)
      VersionsToSend ==
        IF run.phase = "versions" THEN run.vers
        ELSE IF run.phase = "opversions" THEN run.opv
        ELSE <<>>
      \* the run is about to send a version or a rollback record of its current file
      SendsNext ==
        \/ run.phase \in {"versions", "opversions"} /\ VersionsToSend # <<>>
        \/ run.phase = "rollbacks" /\ run.rbs # <<>>
  IN
      SendsNext => hist.upserted = run.cur

\* the upsert has been acknowledged, the versions have been sent, and a
\* rollback record of the file is sent next
C14_Witness ==
  LET
      \* name of the file a local version belongs to
      FileNameOf(v) == (CHOOSE f \in db.env_files : f.id = v.env_file_id).name
  IN
      /\ run.phase = "rollbacks" /\ run.rbs # <<>>
      /\ run.vers = <<>>
      /\ hist.upserted = run.cur
      /\ \E v \in db.env_versions : v.syncedToServer /\ FileNameOf(v) = run.cur

\* C15: when the push of a file, or of one of its versions or rollback
\* records, has failed in a sync or push run, the run has still sent every
\* other file of the run.
C15_FailureDoesNotBlock ==
  hist.last.op \in {"sync", "push"} /\ hist.last.failed => hist.last.left = {}

----------------------------------------------------------------------------
\* Rename and remove with the server out of reach.

\* C16: when a rename or a forced remove has completed locally and its remote
\* call could not reach the server, exactly one pending operation of the
\* matching type (RENAME or DELETE) and entity has been queued for it
C16_OfflineRenameDeleteQueued ==
  LET
      \* pending operations queued by the last command
      QueuedByLast ==
        {q \in db.pending_operations : q.id \notin hist.last.opsBefore}
  IN
      /\ hist.last.op \in {"rename", "remove"}
      /\ hist.last.ok
      /\ hist.last.calls = 1
      /\ hist.last.reached = 0
      => /\ Cardinality(QueuedByLast) = 1
         /\ \A q \in QueuedByLast :
              /\ q.operation_type = (IF hist.last.op = "rename" THEN "RENAME" ELSE "DELETE")
              /\ q.entity_type = hist.last.entity

----------------------------------------------------------------------------
\* Repeated remote deletes.

\* C17: a remote delete (DELETE /env-files, DELETE /projects) sent a second
\* time after it succeeded returns success again and changes nothing
C17_RepeatedDeleteSucceeds ==
  /\ \A n \in FileNames :
       LET first == DeleteEnvFiles(remote, DeleteFileRequest(n))
           second == DeleteEnvFiles(first.remote, DeleteFileRequest(n))
       IN first.status = 200 => second.status = 200 /\ second.remote = first.remote
  /\ LET first == DeleteProjects(remote, DeleteProjectRequest)
         second == DeleteProjects(first.remote, DeleteProjectRequest)
     IN first.status = 200 => second.status = 200 /\ second.remote = first.remote

----------------------------------------------------------------------------
\* Deletion in the local store.

\* C18: when deleteProject or deleteEnvFile reports failure, no project,
\* file, version or rollback row has been removed
C18_FailedDeleteRemovesNothing ==
  LET
      \* the project, file, version and rollback rows of store d
      StoredRows(d) ==
        [projects |-> d.projects, env_files |-> d.env_files,
         env_versions |-> d.env_versions, rollback_history |-> d.rollback_history]
  IN
      /\ hist.last.op \in {"deleteEnvFile", "deleteProject", "remove"}
      /\ ~hist.last.ok
      => StoredRows(db) = StoredRows(hist.last.storeBefore)

----------------------------------------------------------------------------
\* Rollbacks that stop half-way.

\* C19: a rollback that found its target leaves the complete pre-rollback
\* rows or the complete post-rollback rows (rollback record, new version,
\* file content and head), also when one of its steps fails
C19_RollbackAllOrNothing ==
  LET
      \* the project, file, version and rollback rows of store d
      StoredRows(d) ==
        [projects |-> d.projects, env_files |-> d.env_files,
         env_versions |-> d.env_versions, rollback_history |-> d.rollback_history]
      \* the store holds everything a rollback of the last command's file writes:
      \* a new rollback record, a new version with the target's content, and the
      \* file row with that content and the new version as its head
      RollbackComplete ==
        LET before == hist.last.storeBefore
            target == CHOOSE v \in before.env_versions : v.id = hist.last.target
        IN /\ \E r \in db.rollback_history \ before.rollback_history :
                r.env_file_id = hist.last.file /\ r.to_version_token = target.version_token
           /\ \E v \in db.env_versions \ before.env_versions, f \in db.env_files :
                /\ v.env_file_id = hist.last.file
                /\ v.content = target.content
                /\ f.id = hist.last.file
                /\ f.content = target.content
                /\ f.current_version_id = v.id
  IN
      hist.last.op = "revert" /\ hist.last.target # NULL
      => \/ StoredRows(db) = StoredRows(hist.last.storeBefore)
         \/ RollbackComplete

----------------------------------------------------------------------------
\* Rollback to a token that no version has.

\* C20: a rollback to a token that matches no existing version fails and
\* changes nothing: no rollback record or version is added, and the content
\* and head of every file, in the store and on disk, are as before
C20_UnknownTokenChangesNothing ==
  LET
      \* the last command was a revert whose commit hash matched no version
      RevertedToUnknown ==
        /\ hist.last.op = "revert"
        /\ \A v \in hist.last.storeBefore.env_versions : v.version_token # hist.last.hash
  IN
      RevertedToUnknown
      => /\ ~hist.last.ok
         /\ db = hist.last.storeBefore
         /\ disk = hist.last.diskBefore

C20_Witness ==
  LET
      \* the last command was a revert whose commit hash matched no version
      RevertedToUnknown ==
        /\ hist.last.op = "revert"
        /\ \A v \in hist.last.storeBefore.env_versions : v.version_token # hist.last.hash
  IN
      /\ RevertedToUnknown
      /\ ~hist.last.ok
      /\ \E f \in db.env_files, v \in db.env_versions : f.current_version_id = v.id

----------------------------------------------------------------------------
\* Versions are never rewritten.

\* C21: once a version exists its content fields never change under any
\* later commit, rollback or sync (every step leaves the file, token and
\* content of the version rows it keeps as they were), and a rollback
\* leaves every earlier version as it was and only adds one new version
\* (at most one row is new, exactly one when it succeeded)
C21_VersionsImmutable ==
  /\ [][\A v \in db.env_versions, w \in db'.env_versions :
          v.id = w.id => /\ w.content = v.content
                         /\ w.version_token = v.version_token
                         /\ w.env_file_id = v.env_file_id]_vars
  /\ [](hist.last.op = "revert"
         => /\ hist.last.storeBefore.env_versions \subseteq db.env_versions
            /\ Cardinality(db.env_versions \ hist.last.storeBefore.env_versions) <= 1
            /\ hist.last.ok
                 => Cardinality(db.env_versions \ hist.last.storeBefore.env_versions) = 1)

\* a revert has succeeded on a store that held a synced version
C21_Witness ==
  /\ hist.last.op = "revert"
  /\ hist.last.ok
  /\ \E v \in hist.last.storeBefore.env_versions : v.syncedToServer
  /\ Cardinality(db.env_versions) >= 2

----------------------------------------------------------------------------
\* Commits that fail.

\* C22: when the commit of a file fails at any step, the stored content,
\* the head pointer and the version list of that file are as before
C22_FailedCommitChangesNothing ==
  LET
      \* what store d holds of the file named n: its row and its versions
      StoredOfFile(d, n) ==
        [file |-> {f \in d.env_files : f.name = n},
         versions |-> {v \in d.env_versions :
                         \E f \in d.env_files : f.name = n /\ f.id = v.env_file_id}]
  IN
      hist.last.op = "commit"
      => \A n \in hist.last.notCommitted :
            StoredOfFile(db, n) = StoredOfFile(hist.last.storeBefore, n)

\* C23: when a commit of several files fails on one of them, every file
\* committed in it has its new version as head, and the count of successes
\* equals the number of files for which a version was created
C23_CommitCountsVersions ==
  LET
      \* versions created by the last commit
      VersionsOfLastCommit == db.env_versions \ hist.last.storeBefore.env_versions
  IN
      hist.last.op = "commit"
      => /\ \A n \in hist.last.committed :
              \E f \in db.env_files, v \in VersionsOfLastCommit :
                 f.name = n /\ v.env_file_id = f.id /\ f.current_version_id = v.id
         /\ hist.last.count = Cardinality(VersionsOfLastCommit)

----------------------------------------------------------------------------
\* One staging record per project.

\* C24: the staging record of a project is keyed by that project: what a
\* project has staged stays its live record until that project stages again
\* or its commit completes, whatever is staged or committed for other
\* projects; and after its commit no record of it is left
C24_StagingPerProject ==
  /\ \A dir \in ProjectDirs :
       elsewhere.live[dir] # NoRecord
         => loadStagedFiles(elsewhere.files, dir) = elsewhere.live[dir]
  /\ \A p \in StagingPaths :
       elsewhere.files[p] # NoRecord
         => elsewhere.live[elsewhere.files[p].projectId] = elsewhere.files[p]

----------------------------------------------------------------------------
\* Expired tokens.

\* C25: a remote call answered 401 "Token expired" leads to exactly one
\* token refresh, followed by exactly one retry of the call when the
\* refresh succeeded, before the outcome is reported
C25_RefreshOnceRetryOnce ==
  auth.last.expired
  => /\ auth.last.refreshes = 1
     /\ auth.last.attempts = 1 + auth.last.refreshed

\* C26: a user has one encryption salt for the lifetime of the account: the
\* value set when the account was created is the value every store that
\* holds the user has, on every device and on the server, whatever logins
\* and migrations have run since
C26_OneSaltPerUser ==
  LET
      \* the rows that hold a salt for the user: those of the devices' stores and
      \* that of the server
      SaltsHeld(email) ==
        {u.encryption_salt : u \in {w \in UNION {accounts.stores[d].users : d \in Devices} :
                                      w.email = email /\ w.encryption_salt # SqlNull}}
          \cup {u.encryption_salt : u \in {w \in accounts.server : w.email = email}}
  IN
                          SaltsHeld(UserEmail) \subseteq {accounts.born}

\* C27: migrateDatabase, run at startup on a store in any earlier schema
\* state and whether or not one of its statements fails, keeps every user
\* row with its salt, ends with the complete schema, and changes nothing
\* when it is run again
C27_MigrationKeepsUsers ==
  accounts.last.op = "migrate" =>
    LET before == accounts.last.before
        after == accounts.stores[accounts.last.device]
    IN /\ after.schema = "salted"
       /\ \A u \in before.users :
            \E w \in after.users :
               /\ w.email = u.email
               /\ w.createdAt = u.createdAt
               /\ u.encryption_salt # SqlNull => w.encryption_salt = u.encryption_salt
       /\ migrateDatabase(after, accounts.drawn, FALSE).store = after

C30_NewestIsHead ==
  \A f \in db.env_files :
    VersionsOfFile(db, f.id) # {} =>
      \A newest \in getVersionsByEnvFileFirst(db, f.id) : newest.id = f.current_version_id

----------------------------------------------------------------------------
\* Referential integrity of the version chain.

\* C31: every non-null current_version_id and every non-null
\* parent_version_id refers to an existing version of the same file, and
\* walking parent_version_id from any version ends at a version without
\* parent, also after a pull has restored the versions of a file
C31_ChainIntegrity ==
  LET
      \* the version is reached from v in at most n steps along parent_version_id
      RECURSIVE EndsWithin(_, _)
      EndsWithin(v, n) ==
        \/ v.parent_version_id = NULL
        \/ /\ n > 0
           /\ \E w \in db.env_versions :
                w.id = v.parent_version_id /\ EndsWithin(w, n - 1)
  IN
      /\ \A f \in db.env_files :
           f.current_version_id # NULL =>
             \E v \in db.env_versions :
                v.id = f.current_version_id /\ v.env_file_id = f.id
      /\ \A v \in db.env_versions :
           /\ v.parent_version_id # NULL =>
                \E w \in db.env_versions :
                   w.id = v.parent_version_id /\ w.env_file_id = v.env_file_id
           /\ EndsWithin(v, Cardinality(db.env_versions))

\* C32: a revert only changes a file of a project of the session's user, and
\* the version it restores is a version of that file: every row the revert
\* added or changed belongs to such a file
C32_RevertOwnFile ==
  LET before == hist.last.storeBefore
      Own(d, envFileId) ==
        \E f \in d.env_files, p \in d.projects :
           f.id = envFileId /\ p.name = f.project_id /\ p.user_id = Owner
  IN hist.last.op = "revert" /\ hist.last.file # NULL =>
       /\ Own(before, hist.last.file)
       /\ \A v \in before.env_versions :
            v.id = hist.last.target => v.env_file_id = hist.last.file
       /\ \A f \in db.env_files \ before.env_files : Own(db, f.id)
       /\ \A v \in db.env_versions \ before.env_versions : Own(db, v.env_file_id)
       /\ \A r \in db.rollback_history \ before.rollback_history : Own(db, r.env_file_id)

\* C33: when pulling a file fails (it cannot be decrypted or the store cannot
\* restore it), the file on disk and the store's rows of that file are what
\* they were before the pull
C33_FailedPullLeavesFile ==
  hist.last.op = "pull" /\ hist.last.ok =>
    \A c \in hist.last.cloudBefore :
       c.name \notin hist.last.pulled \cup hist.last.skipped =>
         /\ disk[c.name] = hist.last.diskBefore[c.name]
         /\ {f \in db.env_files : f.name = c.name}
              = {f \in hist.last.dbBefore : f.name = c.name}
         /\ \A f \in hist.last.dbBefore, v \in db.env_versions :
              f.name = c.name /\ v.env_file_id = f.id => v.id \in hist.last.versBefore

\* C34: with the server reachable and the session valid, every operation in
\* the queue is eventually out of it, whatever its type and whatever became
\* of its file here or on the server
C34_QueueDrains ==
  \A id \in 1..MaxOps :
     (\E o \in db.pending_operations : o.id = id /\ ~o.processed)
       ~> ~(\E o \in db.pending_operations : o.id = id /\ ~o.processed)

\* C35: after a sync run whose remote calls were all acknowledged, no version
\* and no rollback record of the project is flagged unsynced, and the server
\* holds a row for each of them
C35_AckedSyncLeavesNothing ==
  hist.last.op = "sync" /\ ~hist.last.failed =>
    /\ \A v \in db.env_versions :
         /\ v.syncedToServer
         /\ \E f \in db.env_files, r \in remote.env_versions :
              /\ f.id = v.env_file_id
              /\ r.env_file_id = f.name
              /\ r.version_token = v.version_token
    /\ \A b \in db.rollback_history :
         /\ b.syncedToServer
         /\ \E f \in db.env_files, r \in remote.rollback_history :
              /\ f.id = b.env_file_id
              /\ r.env_file_id = f.name
              /\ r.from_version_token = b.from_version_token
              /\ r.to_version_token = b.to_version_token

\* a sync run has sent a version and a rollback record, each acknowledged
C35_Witness ==
  /\ hist.last.op = "sync" /\ ~hist.last.failed /\ hist.last.calls > 0
  /\ db.env_versions # {} /\ db.rollback_history # {}
  /\ \A v \in db.env_versions : v.syncedToServer
  /\ \A b \in db.rollback_history : b.syncedToServer

\* C36: when the server handles two requests for the same version, or for
\* the same new project or file name, side by side, it ends with one row
\* for it: no two project rows of a user share a name, no two file rows of
\* a project share a name, no two version rows of a file share a token
C36_OneRowEach ==
  /\ \A p1, p2 \in srv.projects :
       p1.user_id = p2.user_id /\ p1.name = p2.name => p1 = p2
  /\ \A f1, f2 \in srv.env_files :
       f1.project_id = f2.project_id /\ f1.name = f2.name => f1 = f2
  /\ \A v1, v2 \in srv.env_versions :
       v1.env_file_id = v2.env_file_id /\ v1.version_token = v2.version_token => v1 = v2

\* C38: a statement run for a request of one user creates, changes and
\* deletes only rows of that user's projects, and the ids the request has
\* read are ids of that user's rows, whatever the body of the request says
C38_OwnRowsOnly ==
  [][
    LET OwnersOfProject(t, projectId) ==
          {p.user_id : p \in {x \in t.projects : x.id = projectId}}
        OwnersOfFile(t, envFileId) ==
          UNION {OwnersOfProject(t, f.project_id) :
                   f \in {x \in t.env_files : x.id = envFileId}}
        Touched(before, after) == (before \ after) \cup (after \ before)
    IN
        /\ \A p \in Touched(srv.projects, srv'.projects) : p.user_id = srv'.by
        /\ \A f \in Touched(srv.env_files, srv'.env_files) :
             OwnersOfProject(srv, f.project_id) \cup OwnersOfProject(srv', f.project_id)
               \subseteq {srv'.by}
        /\ \A v \in Touched(srv.env_versions, srv'.env_versions)
                     \cup Touched(srv.rollback_history, srv'.rollback_history) :
             OwnersOfFile(srv, v.env_file_id) \cup OwnersOfFile(srv', v.env_file_id)
               \subseteq {srv'.by}
        /\ \A s \in Slots :
             /\ OwnersOfProject(srv', srv'.reqs[s].projectId) \subseteq {srv'.reqs[s].user}
             /\ OwnersOfFile(srv', srv'.reqs[s].envFileId) \subseteq {srv'.reqs[s].user}
  ]_vars

\* two users have a project of the same name, each with a file of the same
\* name, and one of them sent a body naming the other user
C38_Witness ==
  /\ \E p1, p2 \in srv.projects :
       /\ p1.user_id # p2.user_id /\ p1.name = p2.name
       /\ \E f1, f2 \in srv.env_files :
            f1.project_id = p1.id /\ f2.project_id = p2.id /\ f1.content # f2.content
  /\ \E s \in Slots :
       /\ srv.reqs[s].route = "DELETE /env-files" /\ srv.reqs[s].pc = "envFile"
       /\ srv.reqs[s].body.user_email # srv.reqs[s].user

\* C37: a session written by a successful login, against the server or
\* against the local store when the server is unreachable, carries as
\* userId the id of the local users row of the session's email
C37_SessionUserId ==
  auth.via = "login" => auth.localId # NULL /\ auth.userId = auth.localId

\* C39: a refresh token that was redeemed, or whose session logged out, is
\* not in the set of tokens POST /auth/refresh accepts
C39_RetiredTokenRefused ==
  auth.retired \cap auth.refreshTokens = {}

====
